---- MODULE Spec2Model ----
(***************************************************************************)
(* mfcs-bench: the execution-and-analysis engine.                          *)
(*                                                                         *)
(*   BenchmarkProcessor._analyze_responses   the response analyzer         *)
(*   BenchmarkProcessor.async_process_app    the process runner            *)
(*   BenchmarkProcessor._parse_responses     the non-streaming parser      *)
(*   BenchmarkProcessor._handle_stream_output the synchronous collector    *)
(*                                                                         *)
(* Text is a TLA+ string; a JSON object is a record; a key that is absent  *)
(* or null is the value None (for a string) or kind "absent" / "null"      *)
(* (for a nested object).  Floats that the code only ever compares with    *)
(* 0, 50 and 100 are integers (percent).                                   *)
(***************************************************************************)
EXTENDS Integers, Sequences, FiniteSets, TLC

VARIABLES
    pc,                \* position of the operation under way
    responses,         \* the event sequence (list of parsed JSON values)
    test_case,         \* the resolved Test Case
    analysis,          \* the Analysis object _analyze_responses returned last
    DEFAULT_ANALYSIS,  \* the class attribute BenchmarkProcessor.DEFAULT_ANALYSIS
    finished,          \* the Analyses returned so far, oldest first
    mode,              \* "stream" / "batch": async_process_app with the config's
                       \* stream flag on / off; "sync": _handle_stream_output
    child,             \* the child process: "none", "running", "exited", "killed"
    emitted,           \* the lines the child has written to stdout, in order
    nread,             \* how many of them have left the pipe
    buffered,          \* how many of those wait in the reader's buffer
    stdout_data,       \* the lines collected (stdout_data; outs in batch mode)
    timed_out,         \* the timeout has fired
    result,            \* the Run Result returned
    pipes,             \* which of "stdout", "stderr" the child holds open
    signals,           \* the signals sent to the child, in order
    scorer,            \* the similarity scorer in this run: "idle", "scored"
                       \* or "failed" (it raised)
    tc_file,           \* the test-case file as _load_test_case found it
    err_todo,          \* how much the child has yet to write to stderr before
                       \* it turns to its stdout, in pipe-fulls
    stderr_pipe,       \* how much stderr waits in the pipe, in pipe-fulls
    stderr_buffer,     \* how much stderr waits in proc.stderr's buffer
    stderr_data,       \* how much stderr the runner has read (stderr_data; errs
                       \* in batch mode), in pipe-fulls
    exit_status,       \* the status the child exits with when it exits of its
                       \* own accord
    tasks,             \* async_run_benchmark: the tasks created, by number
    results,           \* async_run_benchmark: results, by combination
    completed,         \* the tasks that have returned, in the order they did
    config             \* async_run_benchmark: the models and the test-case
                       \* files of the app, as loaded

runVars == <<mode, child, emitted, nread, buffered, stdout_data, timed_out, result,
             pipes, signals, scorer, tc_file>>

batchVars == <<tasks, results, completed, config>>

stderrVars == <<err_todo, stderr_pipe, stderr_buffer, stderr_data>>

vars == <<pc, responses, test_case, analysis, DEFAULT_ANALYSIS, finished, runVars,
          batchVars, stderrVars, exit_status>>

-----------------------------------------------------------------------------
(* Bounds *)

\* longest event sequence handed to one analysis
MaxEvents == 3

\* analyses performed one after another on the shared class attribute, and
\* the longest event sequence of each
MaxCalls == 3

MaxCallEvents == 1

\* lines a child writes to stdout in one run
MaxLines == 3

-----------------------------------------------------------------------------
(* JSON values *)

\* Python None / a JSON null / a key that is not there, for string-valued keys
None == "<None>"

\* Python truthiness of an optional string: None and "" are falsy
Truthy(s) == s /= None /\ s /= ""

\* dict.get(key) of an optional nested object: kind is "absent" (no key),
\* "null" (JSON null) or "dict"
AbsentObj == [kind |-> "absent", name |-> None, content |-> None,
              prompt_tokens |-> 0, completion_tokens |-> 0]

ToolCall(name) == [AbsentObj EXCEPT !.kind = "dict", !.name = name]

ChoiceDelta(content) == [AbsentObj EXCEPT !.kind = "dict", !.content = content]

Usage(p, c) == [AbsentObj EXCEPT !.kind = "dict", !.prompt_tokens = p,
                                 !.completion_tokens = c]

\* the key with a JSON null for value
NullObj == [AbsentObj EXCEPT !.kind = "null"]

\* A bug for the checks: the guard is that the key is there
IsPresentKey(x) == x.kind /= "absent"

\* isinstance(x, dict)
IsDict(x) == x.kind = "dict"

\* A bug for the checks: only an absent key counts as None
IsAbsentKey(x) == x.kind = "absent"

\* x is None: dict.get gives None for an absent key as for a null
IsNone(x) == x.kind \in {"absent", "null"}

\* An Event Record with no key set
EmptyEvent == [isdict |-> TRUE, model |-> None, content |-> None,
               reasoning_content |-> None, tool_call |-> AbsentObj,
               choice_delta |-> AbsentObj, usage |-> AbsentObj]

\* A line that is well-formed JSON but no object (a number, a string, a list)
ScalarEvent == [EmptyEvent EXCEPT !.isdict = FALSE]

\* The event records the test programs emit (apps/mfcs-python/example_app.py
\* emits the first, second, fourth, third and ninth shapes, and writes a null
\* for every key an event does not use, as the tenth does), and the shapes
\* the analyzer has to tell apart.
Events ==
    { [EmptyEvent EXCEPT !.model = "qwen", !.reasoning_content = "hm"],
      [EmptyEvent EXCEPT !.model = "qwen", !.choice_delta = ChoiceDelta("he")],
      [EmptyEvent EXCEPT !.choice_delta = ChoiceDelta(None)],
      [EmptyEvent EXCEPT !.tool_call = ToolCall("get_weather")],
      [EmptyEvent EXCEPT !.tool_call = ToolCall("search")],
      [EmptyEvent EXCEPT !.tool_call = ToolCall("none")],
      [EmptyEvent EXCEPT !.tool_call = ToolCall("no")],
      [EmptyEvent EXCEPT !.tool_call = ToolCall("")],
      [EmptyEvent EXCEPT !.usage = Usage(10, 5)],
      [EmptyEvent EXCEPT !.usage = Usage(0, 7), !.choice_delta = NullObj,
                         !.tool_call = NullObj],
      [EmptyEvent EXCEPT !.model = "gpt", !.content = "llo"],
      [EmptyEvent EXCEPT !.content = "a", !.reasoning_content = "b",
                         !.choice_delta = ChoiceDelta("c"),
                         !.tool_call = ToolCall("get_weather"),
                         !.usage = Usage(1, 2)],
      ScalarEvent }

\* All sequences over S of length at most n
BoundedSeq(S, n) == UNION { [1..k -> S] : k \in 0..n }

EventSeqs == BoundedSeq(Events, MaxEvents)

\* expected_output: each key is there or not
ExpectedOutput(has_tool, tool, has_sem, sem) ==
    [has_contains_tool |-> has_tool, contains_tool |-> tool,
     has_semantic_match |-> has_sem, semantic_match |-> sem]

NoExpectations == ExpectedOutput(FALSE, None, FALSE, None)

\* A Test Case: has_expected_output is FALSE when the key is absent (also the
\* empty Test Case that a missing file degrades to); model is the model the
\* file declares, None when it declares none
EmptyTestCase == [model |-> None, has_expected_output |-> FALSE,
                  expected_output |-> NoExpectations]

ExpectedTools == {"get_weather", "none", "no"}

ExpectedPhrases == {"hello", "none", ""}

TestCases ==
    {EmptyTestCase}
    \cup { [model |-> None, has_expected_output |-> TRUE,
            expected_output |-> NoExpectations] }
    \cup { [model |-> "gpt", has_expected_output |-> FALSE,
            expected_output |-> NoExpectations] }
    \cup { [model |-> "gpt", has_expected_output |-> TRUE,
            expected_output |-> ExpectedOutput(FALSE, None, TRUE, "hello")] }
    \cup { [model |-> None, has_expected_output |-> TRUE,
            expected_output |-> ExpectedOutput(TRUE, t, FALSE, None)] :
           t \in ExpectedTools }
    \cup { [model |-> None, has_expected_output |-> TRUE,
            expected_output |-> ExpectedOutput(FALSE, None, TRUE, s)] :
           s \in ExpectedPhrases }
    \cup { [model |-> None, has_expected_output |-> TRUE,
            expected_output |-> ExpectedOutput(TRUE, t, TRUE, s)] :
           t \in ExpectedTools, s \in ExpectedPhrases }

-----------------------------------------------------------------------------
(* The similarity scorer *)

\* DEFAULT_EMBEDDING_THRESHOLD = 0.45, in percent
DEFAULT_EMBEDDING_THRESHOLD == 45

\* expected occurs in actual as a contiguous substring
Contains(actual, expected) ==
    \E i \in 1..(Len(actual) + 1) :
        /\ i + Len(expected) - 1 <= Len(actual)
        /\ SubSeq(actual, i, i + Len(expected) - 1) = expected

\* The embedding model's cosine similarity, in percent.  The model is an
\* opaque, deterministic function of the two texts; this one scores a text
\* that contains the phrase 100, a text that contains its first two letters
\* exactly at the threshold, its first letter just below, anything else 0.
CosSim(expected, actual) ==
    IF Contains(actual, expected) THEN 100
    ELSE IF Len(expected) >= 2 /\ Contains(actual, SubSeq(expected, 1, 2))
         THEN DEFAULT_EMBEDDING_THRESHOLD
    ELSE IF Len(expected) >= 1 /\ Contains(actual, SubSeq(expected, 1, 1))
         THEN DEFAULT_EMBEDDING_THRESHOLD - 1
    ELSE 0

\* A bug for the checks: a score that equals the threshold is no match
SemanticMatchAboveThreshold(expected, actual) ==
    CosSim(expected, actual) > DEFAULT_EMBEDDING_THRESHOLD

\* semantic_match_by_embedding: sim >= threshold
semantic_match_by_embedding(expected, actual) ==
    CosSim(expected, actual) >= DEFAULT_EMBEDDING_THRESHOLD

-----------------------------------------------------------------------------
(* BenchmarkProcessor._analyze_responses *)

\* The value of the class attribute DEFAULT_ANALYSIS when the class is loaded.
\* An Analysis object holds its token_usage by reference: ref says whether it
\* is the dict of DEFAULT_ANALYSIS itself or a dict of its own.
PristineDefault ==
    [tool_usage |-> "none", required_content |-> "none",
     semantic_match |-> "none", accuracy |-> 0, response_time |-> 0,
     token_usage |-> [prompt |-> 0, completion |-> 0],
     success |-> FALSE, model |-> "unspecified"]

\* dict.copy() is shallow: the copy's token_usage is the very dict of the
\* original
ShallowCopy(default) ==
    [default EXCEPT !.token_usage = [ref |-> "DEFAULT_ANALYSIS",
                                     prompt |-> 0, completion |-> 0]]

\* The locals of the loop over the responses, before the first one
LoopStart ==
    [model |-> "unspecified", actual_tool_used |-> "none", is_stream |-> FALSE,
     token_usage |-> [prompt |-> 0, completion |-> 0],
     final_usage |-> AbsentObj, combined_content |-> <<>>]

\* The three text fragments one response contributes, in the order appended
Fragments(response) ==
    LET delta_content == IF IsDict(response.choice_delta)
                         THEN response.choice_delta.content ELSE None
    IN  (IF Truthy(response.content) THEN <<response.content>> ELSE <<>>)
        \o (IF Truthy(response.reasoning_content)
            THEN <<response.reasoning_content>> ELSE <<>>)
        \o (IF Truthy(delta_content) THEN <<delta_content>> ELSE <<>>)

\* A bug for the checks: the first tool named is kept, later ones ignored
NextToolUsedFirstWins(actual_tool_used, response) ==
    IF actual_tool_used = "none"
       /\ IsDict(response.tool_call) /\ Truthy(response.tool_call.name)
    THEN response.tool_call.name ELSE actual_tool_used

\* "Safely get tool_call": actual_tool_used after this response
NextToolUsed(actual_tool_used, response) ==
    IF IsDict(response.tool_call) /\ Truthy(response.tool_call.name)
    THEN response.tool_call.name ELSE actual_tool_used

\* A bug for the checks: an event without a model name resets the model
ProcessResponseModelReset(acc, response) ==
    IF ~response.isdict THEN acc
    ELSE
    LET usage     == response.usage
        stream    == acc.is_stream \/ ~IsNone(response.choice_delta)
    IN  [model |-> IF Truthy(response.model) THEN response.model
                   ELSE "unspecified",
         actual_tool_used |-> NextToolUsed(acc.actual_tool_used, response),
         is_stream |-> stream,
         token_usage |->
             IF IsDict(usage) /\ stream
             THEN [prompt |-> acc.token_usage.prompt + usage.prompt_tokens,
                   completion |-> acc.token_usage.completion
                                    + usage.completion_tokens]
             ELSE acc.token_usage,
         final_usage |-> IF IsDict(usage) THEN usage ELSE acc.final_usage,
         combined_content |-> acc.combined_content \o Fragments(response)]

\* One iteration of the loop
ProcessResponse(acc, response) ==
    IF ~response.isdict THEN acc
    ELSE
    LET usage     == response.usage
        stream    == acc.is_stream \/ ~IsNone(response.choice_delta)
    IN  [model |-> IF Truthy(response.model) THEN response.model ELSE acc.model,
         actual_tool_used |-> NextToolUsed(acc.actual_tool_used, response),
         is_stream |-> stream,
         token_usage |->
             IF IsDict(usage) /\ stream
             THEN [prompt |-> acc.token_usage.prompt + usage.prompt_tokens,
                   completion |-> acc.token_usage.completion
                                    + usage.completion_tokens]
             ELSE acc.token_usage,
         final_usage |-> IF IsDict(usage) THEN usage ELSE acc.final_usage,
         combined_content |-> acc.combined_content \o Fragments(response)]

\* The loop: a left-to-right fold
RECURSIVE FoldResponses(_, _)
FoldResponses(acc, rs) ==
    IF rs = <<>> THEN acc
    ELSE FoldResponses(ProcessResponse(acc, Head(rs)), Tail(rs))

\* A bug for the checks: " ".join(list)
RECURSIVE JoinWithSpace(_)
JoinWithSpace(list) ==
    IF list = <<>> THEN ""
    ELSE IF Tail(list) = <<>> THEN Head(list)
    ELSE Head(list) \o " " \o JoinWithSpace(Tail(list))

\* "".join(list)
RECURSIVE Join(_)
Join(list) == IF list = <<>> THEN "" ELSE Head(list) \o Join(Tail(list))

\* all_content as the semantic check would build it
CombinedText(rs) == Join(FoldResponses(LoopStart, rs).combined_content)

HasToolCheck(tc) ==
    tc.has_expected_output /\ tc.expected_output.has_contains_tool

HasSemanticCheck(tc) ==
    tc.has_expected_output /\ tc.expected_output.has_semantic_match

\* "Set final token usage": the Analysis's token_usage reference, and the
\* dict of DEFAULT_ANALYSIS after the assignments through that reference
FinalTokenUsage(acc, default) ==
    IF acc.is_stream
    THEN [ref |-> [ref |-> "own", prompt |-> acc.token_usage.prompt,
                   completion |-> acc.token_usage.completion],
          shared |-> default.token_usage]
    ELSE IF IsDict(acc.final_usage)
    THEN [ref |-> [ref |-> "DEFAULT_ANALYSIS", prompt |-> 0, completion |-> 0],
          shared |-> [prompt |-> acc.final_usage.prompt_tokens,
                      completion |-> acc.final_usage.completion_tokens]]
    ELSE [ref |-> [ref |-> "DEFAULT_ANALYSIS", prompt |-> 0, completion |-> 0],
          shared |-> default.token_usage]

\* The calls of the scorer one analysis makes, each with its two arguments
ScorerCalls(acc, tc) ==
    IF HasSemanticCheck(tc) /\ Truthy(tc.expected_output.semantic_match)
    THEN << <<tc.expected_output.semantic_match, Join(acc.combined_content)>> >>
    ELSE <<>>

\* "Check semantic match"
SemanticVerdict(acc, tc) ==
    IF HasSemanticCheck(tc)
    THEN LET expected_match == tc.expected_output.semantic_match
             all_content    == Join(acc.combined_content)
         IN  IF Truthy(expected_match)
                /\ semantic_match_by_embedding(expected_match, all_content)
             THEN "yes" ELSE "no"
    ELSE "none"

\* A bug for the checks: the verdict is the tool seen, so "none" when no
\* tool was called
ToolVerdictReportsActual(acc, tc) ==
    IF HasToolCheck(tc)
    THEN IF acc.actual_tool_used = "none" THEN "none"
         ELSE IF acc.actual_tool_used = tc.expected_output.contains_tool
              THEN acc.actual_tool_used
         ELSE "no"
    ELSE "none"

\* "Set tool usage status"
ToolVerdict(acc, tc) ==
    IF HasToolCheck(tc)
    THEN IF acc.actual_tool_used = "none" THEN "no"
         ELSE IF acc.actual_tool_used = tc.expected_output.contains_tool
              THEN acc.actual_tool_used
         ELSE "no"
    ELSE "none"

\* A bug for the checks: a semantic expectation of "none" is compared too
MetricsCompareNone(tool_usage, semantic_match, tc) ==
    LET tool == IF HasToolCheck(tc)
                THEN <<1, IF tool_usage /= "no" THEN 1 ELSE 0>> ELSE <<0, 0>>
        sem  == IF HasSemanticCheck(tc)
                THEN <<1, IF semantic_match = "yes" THEN 1 ELSE 0>>
                ELSE <<0, 0>>
    IN  <<tool[1] + sem[1], tool[2] + sem[2]>>

\* "Calculate accuracy": <<metrics_to_compare, successful_metrics>>
Metrics(tool_usage, semantic_match, tc) ==
    LET tool == IF HasToolCheck(tc)
                THEN <<1, IF tool_usage /= "no" THEN 1 ELSE 0>> ELSE <<0, 0>>
        sem  == IF HasSemanticCheck(tc)
                   /\ tc.expected_output.semantic_match /= "none"
                THEN <<1, IF semantic_match = "yes" THEN 1 ELSE 0>>
                ELSE <<0, 0>>
    IN  <<tool[1] + sem[1], tool[2] + sem[2]>>

\* A bug for the checks: the default accuracy 0.0 is left when nothing is
\* compared
AccuracyDefaultKept(metrics) ==
    IF metrics[1] > 0 THEN (metrics[2] * 100) \div metrics[1] ELSE 0

\* accuracy in percent
Accuracy(metrics) ==
    IF metrics[1] > 0 THEN (metrics[2] * 100) \div metrics[1] ELSE 100

\* The whole method: the Analysis it returns and DEFAULT_ANALYSIS as it
\* leaves it
_analyze_responses(rs, tc, default) ==
    LET acc      == FoldResponses(LoopStart, rs)
        tokens   == FinalTokenUsage(acc, default)
        semantic == SemanticVerdict(acc, tc)
        tool     == ToolVerdict(acc, tc)
        accuracy == Accuracy(Metrics(tool, semantic, tc))
    IN  [analysis |->
            [ShallowCopy(default) EXCEPT
                !.model = acc.model, !.token_usage = tokens.ref,
                !.semantic_match = semantic, !.tool_usage = tool,
                !.accuracy = accuracy, !.success = (accuracy = 100)],
         DEFAULT_ANALYSIS |-> [default EXCEPT !.token_usage = tokens.shared]]

\* analysis["token_usage"] as a reader sees it: through the reference
TokenUsageOf(a, default) ==
    IF a.token_usage.ref = "DEFAULT_ANALYSIS" THEN default.token_usage
    ELSE [prompt |-> a.token_usage.prompt, completion |-> a.token_usage.completion]

\* An Analysis as a reader sees it: every field by value
ValueOf(a, default) == [a EXCEPT !.token_usage = TokenUsageOf(a, default)]

-----------------------------------------------------------------------------
(* One analysis of arbitrary inputs *)

\* no Analysis returned yet
NoAnalysis == ShallowCopy(PristineDefault)

\* no Run Result returned yet
NoResult == [kind |-> "none"]

\* no test-case file looked for
NoFile == [state |-> "none", content |-> EmptyTestCase]

\* no app configuration loaded
NoConfig == [models |-> <<>>, files |-> <<>>]

\* a child that writes nothing to stderr
NoStderr ==
    /\ err_todo = 0
    /\ stderr_pipe = 0
    /\ stderr_buffer = 0
    /\ stderr_data = 0

\* no process is run, no batch either
NoRun ==
    /\ mode = "none"
    /\ NoStderr
    /\ exit_status = 0
    /\ tasks = <<>>
    /\ results = <<>>
    /\ completed = <<>>
    /\ config = NoConfig
    /\ pipes = {}
    /\ signals = <<>>
    /\ scorer = "idle"
    /\ tc_file = NoFile
    /\ child = "none"
    /\ emitted = <<>>
    /\ nread = 0
    /\ buffered = 0
    /\ stdout_data = <<>>
    /\ timed_out = FALSE
    /\ result = NoResult

InitAnalyze ==
    /\ pc = "call"
    /\ responses \in EventSeqs
    /\ test_case \in TestCases
    /\ analysis = NoAnalysis
    /\ DEFAULT_ANALYSIS = PristineDefault
    /\ finished = <<>>
    /\ NoRun

\* analysis = self._analyze_responses(responses, test_case)
Analyze ==
    /\ pc = "call"
    /\ LET r == _analyze_responses(responses, test_case, DEFAULT_ANALYSIS)
       IN  /\ analysis' = r.analysis
           /\ DEFAULT_ANALYSIS' = r.DEFAULT_ANALYSIS
    /\ pc' = "returned"
    /\ UNCHANGED <<batchVars, exit_status, stderrVars, responses, test_case, finished, runVars>>

NextAnalyze == Analyze

SpecAnalyze == InitAnalyze /\ [][NextAnalyze]_vars

-----------------------------------------------------------------------------
(* Properties of one analysis *)

\* response i carries a tool_call with a non-empty name
NamesTool(rs, i) ==
    rs[i].isdict /\ IsDict(rs[i].tool_call) /\ Truthy(rs[i].tool_call.name)

\* response i carries a tool_call named t
CallsTool(rs, i, t) == NamesTool(rs, i) /\ rs[i].tool_call.name = t

\* the tool check is counted as passed in the accuracy of analysis a for tc
ToolCheckCounted(a, tc) ==
    LET sem_active == HasSemanticCheck(tc)
                      /\ tc.expected_output.semantic_match /= "none"
        total  == 1 + (IF sem_active THEN 1 ELSE 0)
        passed == 1 + (IF sem_active /\ a.semantic_match = "yes" THEN 1 ELSE 0)
    IN  a.accuracy = (passed * 100) \div total

\* expected_output is absent or has no keys
NoExpectationKeys(tc) ==
    \/ ~tc.has_expected_output
    \/ (~tc.expected_output.has_contains_tool
        /\ ~tc.expected_output.has_semantic_match)

\* C1: a Test Case whose expected_output is absent or has no keys is analysed
\* to accuracy 100 and success, whatever the events hold.
C1_NoExpectationTrivialPass ==
    (pc = "returned" /\ NoExpectationKeys(test_case))
        => (analysis.accuracy = 100 /\ analysis.success)

C1_Witness ==
    /\ pc = "returned"
    /\ test_case.has_expected_output
    /\ NoExpectationKeys(test_case)
    /\ \E i \in DOMAIN responses : CallsTool(responses, i, "get_weather")
    /\ \E i \in DOMAIN responses : IsDict(responses[i].usage)
    /\ analysis.success

\* C2 as stated: with contains_tool = T and an event anywhere in the sequence
\* that calls T, tool_usage is T and the tool check is counted as passed.
\* (Stated for the tool names that are no verdict string: a tool named
\* "none" or "no" is never reported as used, which is another matter.)
C2_AnyMatchingCall ==
    (/\ pc = "returned"
     /\ HasToolCheck(test_case)
     /\ test_case.expected_output.contains_tool \notin {"none", "no"}
     /\ \E i \in DOMAIN responses :
            CallsTool(responses, i, test_case.expected_output.contains_tool))
        => (/\ analysis.tool_usage = test_case.expected_output.contains_tool
            /\ ToolCheckCounted(analysis, test_case))

\* the last response that names a tool names t
LastCallIs(rs, t) ==
    \E i \in DOMAIN rs :
        /\ CallsTool(rs, i, t)
        /\ \A j \in DOMAIN rs : j > i => ~NamesTool(rs, j)

\* C2 amended: with contains_tool = T, T none of the verdict strings "none"
\* and "no", and T the name of the last event that names a tool, tool_usage
\* is T and the tool check is counted as passed, whatever precedes that event.
C2_LastMatchingCall ==
    (/\ pc = "returned"
     /\ HasToolCheck(test_case)
     /\ test_case.expected_output.contains_tool \notin {"none", "no"}
     /\ LastCallIs(responses, test_case.expected_output.contains_tool))
        => (/\ analysis.tool_usage = test_case.expected_output.contains_tool
            /\ ToolCheckCounted(analysis, test_case))

C2_Witness ==
    /\ pc = "returned"
    /\ HasToolCheck(test_case)
    /\ test_case.expected_output.contains_tool = "get_weather"
    /\ LastCallIs(responses, "get_weather")
    /\ \E i \in DOMAIN responses : CallsTool(responses, i, "search")
    /\ analysis.tool_usage = "get_weather"

\* C3: with contains_tool present and no event naming a tool, tool_usage is
\* "no" and success is false.
C3_NoToolCalled ==
    (/\ pc = "returned"
     /\ HasToolCheck(test_case)
     /\ \A i \in DOMAIN responses : ~NamesTool(responses, i))
        => (analysis.tool_usage = "no" /\ ~analysis.success)

C3_Witness ==
    /\ pc = "returned"
    /\ HasToolCheck(test_case)
    /\ \A i \in DOMAIN responses : ~NamesTool(responses, i)
    /\ \E i \in DOMAIN responses : IsDict(responses[i].tool_call)
    /\ analysis.tool_usage = "no"

\* some response carries a choice_delta
AnyChoiceDelta(rs) ==
    \E i \in DOMAIN rs : rs[i].isdict /\ ~IsNone(rs[i].choice_delta)

\* response i carries a usage object
BearsUsage(rs, i) == rs[i].isdict /\ IsDict(rs[i].usage)

\* prompt and completion totals over all usage-bearing responses
RECURSIVE SumUsage(_)
SumUsage(rs) ==
    IF rs = <<>> THEN [prompt |-> 0, completion |-> 0]
    ELSE LET rest == SumUsage(Tail(rs))
         IN  IF BearsUsage(rs, 1)
             THEN [prompt |-> rs[1].usage.prompt_tokens + rest.prompt,
                   completion |-> rs[1].usage.completion_tokens + rest.completion]
             ELSE rest

\* C4 as stated: with a choice_delta anywhere, the totals are the sums over
\* all usage-bearing events; with none, they are the last usage object's.
C4_TokenTotals ==
    pc = "returned" =>
        IF AnyChoiceDelta(responses)
        THEN TokenUsageOf(analysis, DEFAULT_ANALYSIS) = SumUsage(responses)
        ELSE \A i \in DOMAIN responses :
                (BearsUsage(responses, i)
                 /\ \A j \in DOMAIN responses : j > i => ~BearsUsage(responses, j))
                => TokenUsageOf(analysis, DEFAULT_ANALYSIS)
                     = [prompt |-> responses[i].usage.prompt_tokens,
                        completion |-> responses[i].usage.completion_tokens]

\* the text one response contributes
EventText(e) ==
    IF ~e.isdict THEN ""
    ELSE (IF Truthy(e.content) THEN e.content ELSE "")
         \o (IF Truthy(e.reasoning_content) THEN e.reasoning_content ELSE "")
         \o (IF IsDict(e.choice_delta) /\ Truthy(e.choice_delta.content)
             THEN e.choice_delta.content ELSE "")

\* C7: the combined text of a sequence is the combined text of any prefix
\* followed by that of the rest, and a single event's is its content, its
\* reasoning_content and its choice_delta.content, in that order.
C7_CombinedTextSplits ==
    /\ \A k \in 0..Len(responses) :
          CombinedText(responses)
            = CombinedText(SubSeq(responses, 1, k))
              \o CombinedText(SubSeq(responses, k + 1, Len(responses)))
    /\ \A i \in DOMAIN responses :
          CombinedText(<<responses[i]>>) = EventText(responses[i])

C7_Witness ==
    /\ pc = "returned"
    /\ Len(responses) >= 2
    /\ Len(CombinedText(SubSeq(responses, 1, 1))) >= 2
    /\ Len(CombinedText(SubSeq(responses, 2, Len(responses)))) >= 3

-----------------------------------------------------------------------------
(* Several analyses, one after another.  The orchestrator runs one Test     *)
(* Case against several models; each run ends in one _analyze_responses     *)
(* call (a synchronous method: no other task runs inside it), on a          *)
(* processor of its own, and the orchestrator keeps every Analysis          *)
(* returned.  DEFAULT_ANALYSIS is a class attribute: one object for all     *)
(* processors.                                                              *)

InitShared ==
    /\ pc = "idle"
    /\ responses = <<>>
    /\ test_case \in TestCases
    /\ analysis = NoAnalysis
    /\ DEFAULT_ANALYSIS = PristineDefault
    /\ finished = <<>>
    /\ NoRun

\* One run's analysis.  finished keeps the run's events, the Analysis
\* object, and (for the properties) its value at the moment it was returned.
AnalyzeRun ==
    /\ Len(finished) < MaxCalls
    /\ \E rs \in BoundedSeq(Events, MaxCallEvents) :
         LET r == _analyze_responses(rs, test_case, DEFAULT_ANALYSIS)
         IN  /\ responses' = rs
             /\ analysis' = r.analysis
             /\ DEFAULT_ANALYSIS' = r.DEFAULT_ANALYSIS
             /\ finished' = Append(finished,
                    [responses |-> rs, analysis |-> r.analysis,
                     returned |-> ValueOf(r.analysis, r.DEFAULT_ANALYSIS)])
    /\ pc' = "returned"
    /\ UNCHANGED <<batchVars, exit_status, stderrVars, test_case, runVars>>

NextShared == AnalyzeRun

SpecShared == InitShared /\ [][NextShared]_vars

\* C5: two analyses of equal inputs return equal Analysis values, whatever
\* was analysed before them.
C5_EqualInputsEqualAnalysis ==
    \A i, j \in DOMAIN finished :
        finished[i].responses = finished[j].responses
            => finished[i].returned = finished[j].returned

\* C6: every Analysis returned still has, field by field, the value it had
\* when it was returned.
C6_ReturnedAnalysisKeepsItsValue ==
    \A i \in DOMAIN finished :
        ValueOf(finished[i].analysis, DEFAULT_ANALYSIS) = finished[i].returned

-----------------------------------------------------------------------------
(* The child's output *)

\* One line of stdout: "json" is a line that json.loads accepts (event is
\* what it yields), "garbage" one it rejects, "blank" one that strip()
\* empties, "open" and "close" the first and last line of a JSON document
\* written over several lines ("[" and "]": rejected line by line),
\* "overlong" a line json.loads rejects that is longer than the 64 KiB an
\* asyncio StreamReader takes in one readline() (create_subprocess_exec is
\* called without limit=).
JsonLine(e) == [kind |-> "json", event |-> e]

GarbageLine == [kind |-> "garbage", event |-> EmptyEvent]

BlankLine == [kind |-> "blank", event |-> EmptyEvent]

OpenLine == [kind |-> "open", event |-> EmptyEvent]

CloseLine == [kind |-> "close", event |-> EmptyEvent]

OverlongLine == [kind |-> "overlong", event |-> EmptyEvent]

Lines ==
    { JsonLine([EmptyEvent EXCEPT !.model = "qwen",
                                  !.choice_delta = ChoiceDelta("he")]),
      JsonLine([EmptyEvent EXCEPT !.tool_call = ToolCall("get_weather")]),
      JsonLine(ScalarEvent),
      GarbageLine, BlankLine, OpenLine, CloseLine, OverlongLine }

\* if line.strip(): responses.append(json.loads(line.strip())), and
\* except json.JSONDecodeError: continue
ParseLineInto(rs, line) ==
    IF line.kind = "blank" THEN rs
    ELSE IF line.kind = "json" THEN Append(rs, line.event)
    ELSE rs

RECURSIVE ParseLines(_, _)
ParseLines(rs, lines) ==
    IF lines = <<>> THEN rs
    ELSE ParseLines(ParseLineInto(rs, Head(lines)), Tail(lines))

NonBlank(lines) == SelectSeq(lines, LAMBDA l : l.kind /= "blank")

\* json.loads(stdout.strip()) succeeds: the whole output is one document
ParsesAsOneDocument(lines) ==
    LET nb == NonBlank(lines)
    IN  \/ Len(nb) = 1 /\ nb[1].kind = "json"
        \/ Len(nb) = 2 /\ nb[1].kind = "open" /\ nb[2].kind = "close"
        \/ Len(nb) = 3 /\ nb[1].kind = "open" /\ nb[2].kind = "json"
                       /\ nb[3].kind = "close"

\* the document: the line's value, or the list the lines spell
DocumentOf(lines) ==
    LET nb == NonBlank(lines)
    IN  IF Len(nb) = 1 THEN nb[1].event ELSE ScalarEvent

\* A bug for the checks: the output is never tried as one document
ParseResponsesLineByLine(stdout) ==
    IF NonBlank(stdout) = <<>> THEN <<>>
    ELSE ParseLines(<<>>, stdout)

_parse_responses(stdout) ==
    IF NonBlank(stdout) = <<>> THEN <<>>
    ELSE IF ParsesAsOneDocument(stdout) THEN <<DocumentOf(stdout)>>
    ELSE ParseLines(<<>>, stdout)

-----------------------------------------------------------------------------
(* BenchmarkProcessor.async_process_app and _handle_stream_output, one run *)

\* The test-case file as _load_test_case finds it: "no_arg" (no
\* --test_case_name= argument), "missing", "unreadable", "invalid" (its
\* content is no JSON) or "ok" with the Test Case it holds
TestCaseFile(state, content) == [state |-> state, content |-> content]

\* The Test Cases of the files a run may be given
RunTestCases ==
    { EmptyTestCase,
      [model |-> None, has_expected_output |-> TRUE,
       expected_output |-> ExpectedOutput(TRUE, "get_weather", FALSE, None)],
      [model |-> None, has_expected_output |-> TRUE,
       expected_output |-> ExpectedOutput(FALSE, None, TRUE, "hello")],
      [model |-> "gpt", has_expected_output |-> TRUE,
       expected_output |-> ExpectedOutput(FALSE, None, TRUE, "hello")],
      [model |-> None, has_expected_output |-> TRUE,
       expected_output |-> ExpectedOutput(TRUE, "get_weather", TRUE, "")] }

TestCaseFiles ==
    { TestCaseFile(st, EmptyTestCase) :
        st \in {"no_arg", "missing", "unreadable", "invalid"} }
    \cup { TestCaseFile("ok", tc) : tc \in RunTestCases }

\* A bug for the checks: a file that cannot be loaded is taken for one that
\* expects a tool
LoadTestCaseStrict(file) ==
    IF file.state = "ok" THEN file.content
    ELSE [model |-> None, has_expected_output |-> TRUE,
          expected_output |-> ExpectedOutput(TRUE, "get_weather", FALSE, None)]

\* _load_test_case: test_case starts as {}; without the argument nothing is
\* opened, and an exception out of open, read or json.loads is logged and
\* swallowed
_load_test_case(file) ==
    IF file.state = "ok" THEN file.content ELSE EmptyTestCase

\* _analyze_responses gets as far as self.semantic_match_by_embedding
ScorerCalled(tc) ==
    HasSemanticCheck(tc) /\ Truthy(tc.expected_output.semantic_match)

Init ==
    /\ pc = "launch"
    /\ mode \in {"stream", "batch", "sync"}
    /\ responses = <<>>
    /\ test_case = EmptyTestCase
    /\ analysis = NoAnalysis
    /\ DEFAULT_ANALYSIS = PristineDefault
    /\ finished = <<>>
    /\ child = "none"
    /\ emitted = <<>>
    /\ nread = 0
    /\ buffered = 0
    /\ stdout_data = <<>>
    /\ timed_out = FALSE
    /\ result = NoResult
    /\ pipes = {}
    /\ signals = <<>>
    /\ scorer = "idle"
    /\ tc_file = NoFile
    /\ NoStderr
    /\ exit_status = 0
    /\ tasks = <<>>
    /\ results = <<>>
    /\ completed = <<>>
    /\ config = NoConfig

analysisVars == <<test_case, analysis, DEFAULT_ANALYSIS, finished>>

loadVars == <<scorer, tc_file>>

\* The analysis of the result returned from except Exception
ErrorAnalysis ==
    [tool_usage |-> "none", required_content |-> FALSE,
     semantic_match |-> "no", accuracy |-> 0, response_time |-> 0,
     token_usage |-> [prompt |-> 0, completion |-> 0],
     model |-> "unspecified"]

\* A bug for the checks: the error result keeps what the run had collected
ErrorResultKeepsEvents(e) ==
    [kind |-> "error", success |-> FALSE, error |-> e,
     is_stream |-> (mode = "stream"),
     analysis |-> ErrorAnalysis, test_case |-> EmptyTestCase,
     stdout |-> stdout_data, responses |-> responses]

\* The result returned from except Exception as e; error is str(e)
ErrorResult(e) ==
    [kind |-> "error", success |-> FALSE, error |-> e,
     is_stream |-> (mode = "stream"),
     analysis |-> ErrorAnalysis, test_case |-> EmptyTestCase,
     responses |-> <<>>]

\* proc = await asyncio.create_subprocess_exec(...), or the caller's Popen
Launch ==
    /\ pc = "launch"
    /\ child' = "running"
    /\ pipes' = {"stdout", "stderr"}
    /\ pc' = CASE mode = "stream" -> "reading"
               [] mode = "batch"  -> "communicate"
               [] OTHER           -> "sync_loop"
    /\ UNCHANGED <<batchVars, exit_status, stderrVars, mode, responses, emitted, nread, buffered, stdout_data,
                   timed_out, result, signals, loadVars, analysisVars>>

\* the executable is not found (in the virtual environment, or by
\* create_subprocess_exec): FileNotFoundError inside the try
LaunchFails ==
    /\ pc = "launch"
    /\ mode \in {"stream", "batch"}
    /\ result' = ErrorResult("No such file or directory")
    /\ pc' = "returned"
    /\ UNCHANGED <<batchVars, exit_status, stderrVars, mode, child, responses, emitted, nread, buffered,
                   stdout_data, timed_out, pipes, signals, loadVars,
                   analysisVars>>

\* the child writes one more line to stdout
ChildWrite ==
    /\ child = "running"
    /\ err_todo = 0
    /\ "stdout" \in pipes
    /\ Len(emitted) < MaxLines
    /\ \E line \in Lines : emitted' = Append(emitted, line)
    /\ UNCHANGED <<batchVars, exit_status, stderrVars, pc, mode, child, responses, nread, buffered, stdout_data,
                   timed_out, result, pipes, signals, loadVars, analysisVars>>

\* the child closes one of its pipes and runs on
ChildClose ==
    /\ child = "running"
    /\ err_todo = 0
    /\ \E p \in pipes : pipes' = pipes \ {p}
    /\ UNCHANGED <<batchVars, exit_status, stderrVars, pc, mode, child, responses, emitted, nread, buffered,
                   stdout_data, timed_out, result, signals, loadVars,
                   analysisVars>>

\* the child exits of its own accord, which closes its pipes
ChildExit ==
    /\ child = "running"
    /\ err_todo = 0
    /\ child' = "exited"
    /\ pipes' = {}
    /\ UNCHANGED <<batchVars, exit_status, stderrVars, pc, mode, responses, emitted, nread, buffered, stdout_data,
                   timed_out, result, signals, loadVars, analysisVars>>

\* read_stream, one iteration with a line
ReadLine ==
    /\ pc = "reading"
    /\ nread < Len(emitted)
    /\ emitted[nread + 1].kind /= "overlong"
    /\ nread' = nread + 1
    /\ stdout_data' = Append(stdout_data, emitted[nread + 1])
    /\ responses' = ParseLineInto(responses, emitted[nread + 1])
    /\ UNCHANGED <<batchVars, exit_status, stderrVars, pc, mode, child, emitted, buffered, timed_out, result,
                   pipes, signals, loadVars, analysisVars>>

\* read_stream: readline() raises ValueError on a line beyond the reader's
\* limit; it is no asyncio.TimeoutError, so except Exception returns the
\* error result, the child left as it is
ReadLineOverrun ==
    /\ pc = "reading"
    /\ nread < Len(emitted)
    /\ emitted[nread + 1].kind = "overlong"
    /\ result' = ErrorResult("Separator is found, but chunk is longer than limit")
    /\ pc' = "returned"
    /\ UNCHANGED <<batchVars, exit_status, stderrVars, mode, child, responses, emitted, nread, buffered,
                   stdout_data, timed_out, pipes, signals, loadVars,
                   analysisVars>>

\* read_stream: readline returns b"" at end of file (the child has closed
\* its stdout), the loop breaks
ReadEOF ==
    /\ pc = "reading"
    /\ nread = Len(emitted)
    /\ "stdout" \notin pipes
    /\ pc' = "drain_stderr"
    /\ UNCHANGED <<batchVars, exit_status, stderrVars, mode, child, responses, emitted, nread, buffered,
                   stdout_data, timed_out, result, pipes, signals, loadVars,
                   analysisVars>>

\* What a pipe holds, and what proc.stderr's buffer takes before the
\* transport stops reading the pipe (twice the reader's limit of 64 KiB,
\* create_subprocess_exec being called without limit=), in pipe-fulls
PipeCapacity == 1

BufferLimit == 2

\* the transport has stopped reading stderr, or will before it is through
\* with what the pipe holds: it resumes when proc.stderr is read
StderrPaused == stderr_pipe + stderr_buffer >= BufferLimit

\* the child writes to stderr, which it does before it writes to stdout; a
\* write to a full pipe blocks
ChildWriteStderr ==
    /\ child = "running"
    /\ "stderr" \in pipes
    /\ err_todo > 0
    /\ stderr_pipe < PipeCapacity
    /\ err_todo' = err_todo - 1
    /\ stderr_pipe' = stderr_pipe + 1
    /\ UNCHANGED <<batchVars, exit_status, stderr_buffer, stderr_data, pc, mode, child, responses, emitted,
                   nread, buffered, stdout_data, timed_out, result, pipes,
                   signals, loadVars, analysisVars>>

\* the event loop, while the runner awaits: the transport moves what the
\* pipe holds into proc.stderr's buffer, whether or not anyone reads
\* proc.stderr, until the buffer is at its limit
TransportReadsStderr ==
    /\ mode = "stream"
    /\ pc \in {"reading", "drain_stderr"}
    /\ stderr_pipe > 0
    /\ stderr_buffer < BufferLimit
    /\ stderr_pipe' = stderr_pipe - 1
    /\ stderr_buffer' = stderr_buffer + 1
    /\ UNCHANGED <<batchVars, exit_status, err_todo, stderr_data, pc, mode, child, responses, emitted,
                   nread, buffered, stdout_data, timed_out, result, pipes,
                   signals, loadVars, analysisVars>>

\* proc.kill(): SIGKILL to a child that is running, nothing to one that has
\* exited
Kill(sigs) == IF child = "running" THEN Append(sigs, "SIGKILL") ELSE sigs

\* A bug for the checks: what was collected is dropped on timeout, as the
\* non-streaming branch does
StreamTimeoutDiscards ==
    /\ pc = "reading"
    /\ timed_out' = TRUE
    /\ child' = IF child = "running" THEN "killed" ELSE child
    /\ pipes' = {}
    /\ signals' = Kill(signals)
    /\ responses' = <<>>
    /\ stdout_data' = <<>>
    /\ pc' = IF StderrPaused THEN "wait_exit" ELSE "drain_stderr"
    /\ UNCHANGED <<batchVars, exit_status, stderrVars, mode, emitted, nread, buffered, result, loadVars,
                   analysisVars>>

\* asyncio.TimeoutError out of wait_for(read_stream()): proc.kill() and
\* await proc.wait(); what read_stream appended stays.  proc.wait() returns
\* once the child has exited and the transport has seen the end of both
\* pipes, which it never does of a pipe it has stopped reading.
StreamTimeout ==
    /\ pc = "reading"
    /\ timed_out' = TRUE
    /\ child' = IF child = "running" THEN "killed" ELSE child
    /\ pipes' = {}
    /\ signals' = Kill(signals)
    /\ pc' = IF StderrPaused THEN "wait_exit" ELSE "drain_stderr"
    /\ UNCHANGED <<batchVars, exit_status, stderrVars, mode, responses, emitted, nread, buffered, stdout_data,
                   result, loadVars, analysisVars>>

\* "Read remaining stderr": reads, under no timeout, until the child's
\* stderr is at end of file
DrainStderr ==
    /\ pc = "drain_stderr"
    /\ "stderr" \notin pipes
    /\ stderr_pipe = 0
    /\ stderr_buffer = 0
    /\ pc' = "analyze"
    /\ UNCHANGED <<batchVars, exit_status, stderrVars, mode, child, responses, emitted, nread, buffered,
                   stdout_data, timed_out, result, pipes, signals, loadVars,
                   analysisVars>>

\* "Read remaining stderr", one iteration with a line: the only place
\* where the streaming branch reads proc.stderr
DrainStderrLine ==
    /\ pc = "drain_stderr"
    /\ stderr_buffer > 0
    /\ stderr_buffer' = stderr_buffer - 1
    /\ stderr_data' = stderr_data + 1
    /\ UNCHANGED <<batchVars, exit_status, err_todo, stderr_pipe, pc, mode, child, responses,
                   emitted, nread, buffered, stdout_data, timed_out, result,
                   pipes, signals, loadVars, analysisVars>>

\* outs, errs = await wait_for(proc.communicate()): both pipes read to end
\* of file and the exit awaited; then
\* responses = self._parse_responses(stdout)
Communicate ==
    /\ pc = "communicate"
    /\ child = "exited"
    /\ nread' = Len(emitted)
    /\ stdout_data' = emitted
    /\ responses' = _parse_responses(emitted)
    /\ pc' = "analyze"
    /\ UNCHANGED <<batchVars, exit_status, stderrVars, mode, child, emitted, buffered, timed_out, result, pipes,
                   signals, loadVars, analysisVars>>

\* asyncio.TimeoutError out of wait_for(proc.communicate()): proc.kill(),
\* outs, errs = b'', b''
BatchTimeout ==
    /\ pc = "communicate"
    /\ timed_out' = TRUE
    /\ child' = IF child = "running" THEN "killed" ELSE child
    /\ pipes' = {}
    /\ signals' = Kill(signals)
    /\ stdout_data' = <<>>
    /\ responses' = _parse_responses(<<>>)
    /\ pc' = "analyze"
    /\ UNCHANGED <<batchVars, exit_status, stderrVars, mode, emitted, nread, buffered, result, loadVars,
                   analysisVars>>

\* proc.returncode when the Run Result is built: the signal's number,
\* negated, of a child that was killed and awaited; the exit status of one
\* whose exit was awaited (proc.communicate(), proc.wait()); None of one
\* still running, or of one whose exit the event loop has not yet seen,
\* which the streaming branch does not wait for.  An integer is <<n>>,
\* None is <<>>.
returncode ==
    CASE child = "killed" -> {<<-9>>}
      [] child = "exited" /\ (mode = "batch" \/ timed_out) -> {<<exit_status>>}
      [] child = "exited" -> {<<exit_status>>, <<>>}
      [] OTHER -> {<<>>}

\* "return_code": proc.returncode if proc.returncode is not None else -1
return_code(rc) == IF rc /= <<>> THEN rc[1] ELSE -1

\* A bug for the checks: a run only succeeds if the child exited with
\* status 0 before the timeout
RunSuccessNeedsCleanExit(a) ==
    a.success /\ ~timed_out /\ child = "exited" /\ exit_status = 0

\* "success": analysis["success"]
RunSuccess(a) == a.success

\* test_case = await self._load_test_case(app_config), then the analysis,
\* the scorer answering if it is asked, and the Run Result
AnalyzeAndReturn ==
    /\ pc = "analyze"
    /\ \E file \in TestCaseFiles, rc \in returncode :
         LET tc == _load_test_case(file)
             r  == _analyze_responses(responses, tc, DEFAULT_ANALYSIS)
         IN  /\ tc_file' = file
             /\ scorer' = IF ScorerCalled(tc) THEN "scored" ELSE "idle"
             /\ test_case' = tc
             /\ analysis' = r.analysis
             /\ DEFAULT_ANALYSIS' = r.DEFAULT_ANALYSIS
             /\ result' = [kind |-> "result",
                           success |-> RunSuccess(r.analysis),
                           stdout |-> stdout_data,
                           stderr |-> stderr_data,
                           return_code |-> return_code(rc),
                           is_stream |-> (mode = "stream"),
                           analysis |-> r.analysis,
                           test_case |-> tc,
                           responses |-> responses]
    /\ pc' = "returned"
    /\ UNCHANGED <<batchVars, exit_status, stderrVars, mode, child, responses, emitted, nread, buffered,
                   stdout_data, timed_out, pipes, signals, finished>>

\* A bug for the checks: the scorer's exception is swallowed and the analysis
\* goes on as after a score below the threshold
AnalyzeFailsSilently ==
    /\ pc = "analyze"
    /\ \E file \in TestCaseFiles, rc \in returncode :
         LET tc == _load_test_case(file)
             r  == _analyze_responses(responses, tc, DEFAULT_ANALYSIS)
             accuracy == Accuracy(Metrics(r.analysis.tool_usage, "no", tc))
             a  == [r.analysis EXCEPT !.semantic_match = "no",
                                      !.accuracy = accuracy,
                                      !.success = (accuracy = 100)]
         IN  /\ ScorerCalled(tc)
             /\ tc_file' = file
             /\ scorer' = "failed"
             /\ test_case' = tc
             /\ analysis' = a
             /\ DEFAULT_ANALYSIS' = r.DEFAULT_ANALYSIS
             /\ result' = [kind |-> "result",
                           success |-> RunSuccess(a),
                           stdout |-> stdout_data,
                           stderr |-> stderr_data,
                           return_code |-> return_code(rc),
                           is_stream |-> (mode = "stream"),
                           analysis |-> a,
                           test_case |-> tc,
                           responses |-> responses]
    /\ pc' = "returned"
    /\ UNCHANGED <<batchVars, exit_status, stderrVars, mode, child, responses, emitted, nread, buffered,
                   stdout_data, timed_out, pipes, signals, finished>>

\* The same up to self.semantic_match_by_embedding, where the embedding
\* model raises: the token usage is already set, nothing catches the
\* exception before except Exception, which returns the error result
AnalyzeFails ==
    /\ pc = "analyze"
    /\ \E file \in TestCaseFiles :
         LET tc == _load_test_case(file)
             r  == _analyze_responses(responses, tc, DEFAULT_ANALYSIS)
         IN  /\ ScorerCalled(tc)
             /\ tc_file' = file
             /\ scorer' = "failed"
             /\ test_case' = tc
             /\ DEFAULT_ANALYSIS' = r.DEFAULT_ANALYSIS
             /\ result' = ErrorResult("embedding model unavailable")
    /\ pc' = "returned"
    /\ UNCHANGED <<batchVars, exit_status, stderrVars, mode, child, responses, emitted, nread, buffered,
                   stdout_data, timed_out, pipes, signals, analysis,
                   finished>>

\* process.terminate(): SIGTERM to a child that is running
Terminate(sigs) == IF child = "running" THEN Append(sigs, "SIGTERM") ELSE sigs

\* _handle_stream_output, top of the loop: the timeout check,
\* process.terminate() and break
SyncTimeout ==
    /\ pc = "sync_loop"
    /\ timed_out' = TRUE
    /\ signals' = Terminate(signals)
    /\ pc' = "sync_ensure"
    /\ UNCHANGED <<batchVars, exit_status, stderrVars, mode, child, responses, emitted, nread, buffered,
                   stdout_data, result, pipes, loadVars, analysisVars>>

\* process.poll() is not None: communicate() reads what is left in the
\* pipes (not what the reader object holds in its buffer), each line of it
\* is parsed, and the loop breaks
SyncPollExited ==
    /\ pc = "sync_loop"
    /\ child = "exited"
    /\ LET remaining == SubSeq(emitted, nread + 1, Len(emitted))
       IN  /\ stdout_data' = stdout_data \o remaining
           /\ responses' = ParseLines(responses, remaining)
    /\ nread' = Len(emitted)
    /\ buffered' = 0
    /\ pc' = "sync_ensure"
    /\ UNCHANGED <<batchVars, exit_status, stderrVars, mode, child, emitted, timed_out, result, pipes, signals,
                   loadVars, analysisVars>>

\* process.poll() is None: on to process.stdout.readline()
SyncPollRunning ==
    /\ pc = "sync_loop"
    /\ child = "running"
    /\ pc' = "sync_read"
    /\ UNCHANGED <<batchVars, exit_status, stderrVars, mode, child, responses, emitted, nread, buffered,
                   stdout_data, timed_out, result, pipes, signals, loadVars,
                   analysisVars>>

\* readline() returns a line: from the reader's buffer, or from the pipe,
\* from which the reader takes one line or more at once.  A line that does
\* not parse sends the loop back to its top, any other line on to stderr.
SyncReadLine ==
    /\ pc = "sync_read"
    /\ \E k \in 1..MaxLines :
         /\ IF buffered > 0 THEN k = 1 ELSE nread + k <= Len(emitted)
         /\ LET line == emitted[nread - buffered + 1]
            IN  /\ nread' = IF buffered > 0 THEN nread ELSE nread + k
                /\ buffered' = IF buffered > 0 THEN buffered - 1 ELSE k - 1
                /\ stdout_data' = Append(stdout_data, line)
                /\ responses' = ParseLineInto(responses, line)
                /\ pc' = IF line.kind \in {"json", "blank"}
                         THEN "sync_stderr" ELSE "sync_loop"
    /\ UNCHANGED <<batchVars, exit_status, stderrVars, mode, child, emitted, timed_out, result, pipes, signals,
                   loadVars, analysisVars>>

\* readline() returns "" at end of file: "No more output", the loop breaks
SyncReadEOF ==
    /\ pc = "sync_read"
    /\ buffered = 0
    /\ nread = Len(emitted)
    /\ "stdout" \notin pipes
    /\ pc' = "sync_ensure"
    /\ UNCHANGED <<batchVars, exit_status, stderrVars, mode, child, responses, emitted, nread, buffered,
                   stdout_data, timed_out, result, pipes, signals, loadVars,
                   analysisVars>>

\* process.stderr.readline(), then back to the top of the loop.  The read
\* blocks: of a child that writes nothing to stderr it returns when the
\* child has closed its stderr
SyncReadStderr ==
    /\ pc = "sync_stderr"
    /\ "stderr" \notin pipes
    /\ pc' = "sync_loop"
    /\ UNCHANGED <<batchVars, exit_status, stderrVars, mode, child, responses, emitted, nread, buffered,
                   stdout_data, timed_out, result, pipes, signals, loadVars,
                   analysisVars>>

\* "Ensure process is terminated": terminate(), wait(timeout=5), and kill()
\* if the child has not gone by then; and the return
SyncEnsureTerminated ==
    /\ pc = "sync_ensure"
    /\ \E obeys \in BOOLEAN :
         IF child = "running"
         THEN /\ child' = IF obeys THEN "exited" ELSE "killed"
              /\ signals' = IF obeys THEN Terminate(signals)
                            ELSE Kill(Terminate(signals))
         ELSE /\ obeys
              /\ UNCHANGED <<batchVars, exit_status, stderrVars, child, signals>>
    /\ pipes' = {}
    /\ pc' = "sync_returned"
    /\ UNCHANGED <<batchVars, exit_status, stderrVars, mode, responses, emitted, nread, buffered, stdout_data,
                   timed_out, result, loadVars, analysisVars>>

Next ==
    \/ Launch
    \/ LaunchFails
    \/ ChildWrite
    \/ ChildClose
    \/ ChildExit
    \/ ReadLine
    \/ ReadLineOverrun
    \/ ReadEOF
    \/ StreamTimeout
    \/ DrainStderr
    \/ Communicate
    \/ BatchTimeout
    \/ AnalyzeAndReturn
    \/ AnalyzeFails
    \/ SyncTimeout
    \/ SyncPollExited
    \/ SyncPollRunning
    \/ SyncReadLine
    \/ SyncReadEOF
    \/ SyncReadStderr
    \/ SyncEnsureTerminated

Spec == Init /\ [][Next]_vars

-----------------------------------------------------------------------------
(* One streaming run of a child that writes to stderr first *)

\* the most the child writes to stderr, in pipe-fulls
MaxErrChunks == 4

InitStderr ==
    /\ pc = "launch"
    /\ mode = "stream"
    /\ responses = <<>>
    /\ test_case = EmptyTestCase
    /\ analysis = NoAnalysis
    /\ DEFAULT_ANALYSIS = PristineDefault
    /\ finished = <<>>
    /\ child = "none"
    /\ emitted = <<>>
    /\ nread = 0
    /\ buffered = 0
    /\ stdout_data = <<>>
    /\ timed_out = FALSE
    /\ result = NoResult
    /\ pipes = {}
    /\ signals = <<>>
    /\ scorer = "idle"
    /\ tc_file = NoFile
    /\ err_todo \in 1..MaxErrChunks
    /\ stderr_pipe = 0
    /\ stderr_buffer = 0
    /\ stderr_data = 0
    /\ exit_status = 0
    /\ tasks = <<>>
    /\ results = <<>>
    /\ completed = <<>>
    /\ config = NoConfig

NextStderr ==
    \/ Launch
    \/ ChildWriteStderr
    \/ TransportReadsStderr
    \/ ChildWrite
    \/ ChildClose
    \/ ChildExit
    \/ ReadLine
    \/ ReadLineOverrun
    \/ ReadEOF
    \/ StreamTimeout
    \/ DrainStderrLine
    \/ DrainStderr
    \/ AnalyzeAndReturn
    \/ AnalyzeFails

SpecStderr == InitStderr /\ [][NextStderr]_vars

-----------------------------------------------------------------------------
(* Properties of one run *)

\* the values of the lines that are well-formed JSON, in the lines' order
WellFormedEvents(lines) ==
    LET js == SelectSeq(lines, LAMBDA l : l.kind = "json")
    IN  [i \in 1..Len(js) |-> js[i].event]

\* s is t with some elements left out: same order, nothing twice
RECURSIVE IsSubseq(_, _)
IsSubseq(s, t) ==
    IF s = <<>> THEN TRUE
    ELSE IF t = <<>> THEN FALSE
    ELSE IF Head(s) = Head(t) THEN IsSubseq(Tail(s), Tail(t))
    ELSE IsSubseq(s, Tail(t))

\* C8: in streaming mode, after a timeout, the Run Result's responses are the
\* events of the well-formed lines read before the timeout, in order, its
\* stdout is those lines, and its success is the analyzer's verdict on those
\* events (the analyzer coming to a verdict: its scorer does not raise).
C8_TimeoutKeepsCollectedEvents ==
    (mode = "stream" /\ timed_out /\ pc = "returned" /\ scorer /= "failed")
        => (/\ result.responses = WellFormedEvents(SubSeq(emitted, 1, nread))
            /\ result.stdout = SubSeq(emitted, 1, nread)
            /\ result.success = result.analysis.success
            /\ result.success
                 = _analyze_responses(result.responses, result.test_case,
                                      PristineDefault).analysis.success)

C8_Witness ==
    /\ mode = "stream"
    /\ timed_out
    /\ pc = "returned"
    /\ child = "killed"
    /\ Len(result.responses) = 1
    /\ HasToolCheck(result.test_case)
    /\ result.success

\* C9: a line that is no JSON is dropped and collection goes on.  In the
\* streaming read loop the events are, at every moment, exactly the
\* well-formed lines among the lines read so far, and the run returns them;
\* after _parse_responses' line-by-line fallback they are exactly the
\* well-formed lines of the output.
C9_MalformedLinesDropped ==
    /\ mode = "stream" =>
          (/\ stdout_data = SubSeq(emitted, 1, nread)
           /\ responses = WellFormedEvents(stdout_data))
    /\ (mode = "stream" /\ pc = "returned") =>
          (/\ result.kind = "result"
           /\ result.responses = WellFormedEvents(SubSeq(emitted, 1, nread)))
    /\ (mode = "batch" /\ pc \in {"analyze", "returned"}
        /\ ~ParsesAsOneDocument(stdout_data))
          => responses = WellFormedEvents(stdout_data)

\* What does hold of malformed lines: every line-by-line parse keeps exactly
\* the well-formed lines it is given
MalformedLinesDroppedByParse ==
    /\ mode = "stream" =>
          (/\ stdout_data = SubSeq(emitted, 1, nread)
           /\ responses = WellFormedEvents(stdout_data))
    /\ (mode = "batch" /\ pc \in {"analyze", "returned"}
        /\ ~ParsesAsOneDocument(stdout_data))
          => responses = WellFormedEvents(stdout_data)

\* C10: at every point of a streaming collection (read_stream and
\* _handle_stream_output) the events collected are the well-formed lines
\* among the lines the child had emitted up to some point, in the order
\* emitted, none twice and none left out.
C10_EmissionOrderPreserved ==
    mode \in {"stream", "sync"} =>
        \E k \in 0..Len(emitted) :
            responses = WellFormedEvents(SubSeq(emitted, 1, k))

\* What does hold of the order: the events collected are lines the child
\* emitted, in the order emitted, none twice
CollectedInEmissionOrder ==
    mode \in {"stream", "sync"} =>
        (/\ IsSubseq(responses, WellFormedEvents(emitted))
         /\ IsSubseq(stdout_data, emitted))

\* C11: whenever async_process_app has returned a Run Result (normal,
\* timeout or exception path, streaming or not), the child it launched is
\* not running any more.
C11_NoChildLeftRunning ==
    (mode \in {"stream", "batch"} /\ pc = "returned") => child /= "running"

\* C12: in async_process_app a SIGKILL is never the first signal the child
\* is sent: every SIGKILL comes after a SIGTERM.
C12_GracefulBeforeForce ==
    mode \in {"stream", "batch"} =>
        \A i \in DOMAIN signals :
            signals[i] = "SIGKILL" => (i > 1 /\ signals[i - 1] = "SIGTERM")

\* the model a Test Case declares, "unspecified" when it declares none
DeclaredModelOr(tc) == IF Truthy(tc.model) THEN tc.model ELSE "unspecified"

\* C13: a Run Result returned from the exception path has success false, a
\* populated error, and a default Analysis whose model is the model the
\* run's Test Case declares, "unspecified" when it declares none.
C13_ExceptionResult ==
    (mode \in {"stream", "batch"} /\ pc = "returned" /\ result.kind = "error")
        => (/\ result.success = FALSE
            /\ Truthy(result.error)
            /\ result.analysis.model = DeclaredModelOr(test_case))

\* What does hold of the exception path: success is false, error is
\* populated, and the Analysis is the fixed default
ExceptionResultIsDefault ==
    (mode \in {"stream", "batch"} /\ pc = "returned" /\ result.kind = "error")
        => (/\ result.success = FALSE
            /\ Truthy(result.error)
            /\ result.analysis = ErrorAnalysis
            /\ result.responses = <<>>)

\* C17: when the test-case file is missing, unreadable, no JSON, or not
\* named at all, _load_test_case returns the empty Test Case instead of
\* raising, and the run's analysis is trivially successful: accuracy 100,
\* success true.
C17_UnloadableTestCaseIsEmpty ==
    (mode \in {"stream", "batch"} /\ pc = "returned"
     /\ tc_file.state \in {"no_arg", "missing", "unreadable", "invalid"})
        => (/\ test_case = EmptyTestCase
            /\ result.kind = "result"
            /\ result.test_case = EmptyTestCase
            /\ result.analysis.accuracy = 100
            /\ result.success = TRUE)

C17_Witness ==
    /\ mode = "stream"
    /\ pc = "returned"
    /\ tc_file.state = "invalid"
    /\ Len(result.responses) = 2
    /\ result.success

-----------------------------------------------------------------------------
(* Progress of one run *)

\* a step of the collector, as opposed to a step of the child
RunnerStep ==
    \/ Launch
    \/ LaunchFails
    \/ ReadLine
    \/ ReadLineOverrun
    \/ ReadEOF
    \/ StreamTimeout
    \/ DrainStderr
    \/ Communicate
    \/ BatchTimeout
    \/ AnalyzeAndReturn
    \/ AnalyzeFails
    \/ SyncTimeout
    \/ SyncPollExited
    \/ SyncPollRunning
    \/ SyncReadLine
    \/ SyncReadEOF
    \/ SyncReadStderr
    \/ SyncEnsureTerminated

\* The event loop runs the collector whenever it can take a step, a timeout
\* that is armed among them; the child owes nothing.
LiveSpec == Init /\ [][Next]_vars /\ WF_vars(RunnerStep)

\* C18: every invocation of async_process_app eventually returns a Run
\* Result, whatever the child does.
C18_EventuallyReturns ==
    <>(mode \notin {"stream", "batch"} \/ pc = "returned")

\* What does hold of termination: a non-streaming run eventually returns
BatchEventuallyReturns ==
    <>(mode /= "batch" \/ pc = "returned")

\* C20: a run whose scorer raised returns a Run Result with a populated
\* error, which no run whose scorer gave a score has: a score below the
\* threshold yields a Run Result without error whose analysis says
\* semantic_match "no".
C20_ScorerFailureSurfaced ==
    (mode \in {"stream", "batch"} /\ pc = "returned")
        => (/\ scorer = "failed" =>
                  (result.kind = "error" /\ Truthy(result.error))
            /\ scorer = "scored" =>
                  (/\ result.kind = "result"
                   /\ result.analysis.semantic_match \in {"yes", "no"}))

C20_Witness ==
    /\ mode = "stream"
    /\ pc = "returned"
    /\ scorer = "failed"
    /\ Len(responses) = 1
    /\ result.kind = "error"

-----------------------------------------------------------------------------
(* BenchmarkRunner.async_run_benchmark: one batch of concurrent tasks *)

\* the most models in the app's model config, the most test-case files in
\* its directory, and the most tasks of a batch
MaxModels == 2

\* What the app's configuration may hold: the models of its model config
\* and the .json files of its test-case directory, each named by a number
Configs ==
    { [models |-> [i \in 1..n[1] |-> i], files |-> [j \in 1..n[2] |-> j]] :
        n \in { q \in (1..MaxModels) \X (1..MaxModels) :
                   q[1] * q[2] <= MaxModels } }

\* One iteration of the inner loop, for model_name m and test_case_file f:
\* the arguments it appends to the command, the argument it appends to the
\* args of app_config_with_case, and the entry of task_map
LoopIteration(m, f) ==
    [command |-> [model_name |-> m, test_case_name |-> f],
     app_config_with_case |-> [test_case_name |-> f],
     key |-> [app_name |-> "app", model_name |-> m, test_case_file |-> f]]

\* A bug for the checks: the inner loop's variable is read after the loop
EnumerateLastFile(models, files) ==
    [c \in 1..(Len(models) * Len(files)) |->
        LoopIteration(models[((c - 1) \div Len(files)) + 1], files[Len(files)])]

\* for model_name in models.keys(): for test_case_file in test_case_files:
\* the iterations in order
Enumerate(models, files) ==
    [c \in 1..(Len(models) * Len(files)) |->
        LoopIteration(models[((c - 1) \div Len(files)) + 1],
                      files[((c - 1) % Len(files)) + 1])]

\* The tasks, numbered in the order the enumeration creates them
Combos == 1..(Len(config.models) * Len(config.files))

\* task_map[task]: the combination a task was created for
task_map(c) == Enumerate(config.models, config.files)[c].key

\* What a task's child may have written by the time collection ends
TaskOutputs ==
    { <<>>,
      << [EmptyEvent EXCEPT !.usage = Usage(10, 5)] >>,
      << [EmptyEvent EXCEPT !.tool_call = ToolCall("get_weather")] >> }

\* The Test Cases of the batch's file
BatchTestCases ==
    { EmptyTestCase,
      [model |-> None, has_expected_output |-> TRUE,
       expected_output |-> ExpectedOutput(TRUE, "get_weather", FALSE, None)] }

\* A task just created: its coroutine has launched its child
NewTask ==
    [state |-> "collecting", child |-> "running", responses |-> <<>>,
     timed_out |-> FALSE, failed |-> FALSE, result |-> NoResult,
     returned |-> NoResult, command |-> None, app_config |-> None]

\* A Run Result as a reader sees it: the analysis by value
ResultValue(res, default) ==
    IF res.kind = "result"
    THEN [res EXCEPT !.analysis = ValueOf(res.analysis, default)]
    ELSE res

InitBatch ==
    /\ pc = "enumerate"
    /\ mode \in {"stream", "batch"}
    /\ responses = <<>>
    /\ test_case = EmptyTestCase
    /\ analysis = NoAnalysis
    /\ DEFAULT_ANALYSIS = PristineDefault
    /\ finished = <<>>
    /\ child = "none"
    /\ emitted = <<>>
    /\ nread = 0
    /\ buffered = 0
    /\ stdout_data = <<>>
    /\ timed_out = FALSE
    /\ result = NoResult
    /\ pipes = {}
    /\ signals = <<>>
    /\ scorer = "idle"
    /\ tc_file = NoFile
    /\ NoStderr
    /\ exit_status = 0
    /\ tasks = <<>>
    /\ results = <<>>
    /\ completed = <<>>
    /\ config \in Configs

\* what a batch leaves alone: the variables of a single run
singleRunVars ==
    <<responses, test_case, analysis, mode, child, emitted, nread, buffered,
      stdout_data, timed_out, result, pipes, signals, scorer, tc_file,
      stderrVars, exit_status>>

\* the enumeration: a processor and a task for every combination
CreateTasks ==
    /\ pc = "enumerate"
    /\ tasks' = [c \in Combos |->
                   LET it == Enumerate(config.models, config.files)[c]
                   IN  [NewTask EXCEPT !.command = it.command,
                                       !.app_config = it.app_config_with_case]]
    /\ pc' = "gather"
    /\ UNCHANGED <<DEFAULT_ANALYSIS, finished, results, completed,
                   config, singleRunVars>>

\* a task's child exits and its collection ends
TaskCollected(c) ==
    /\ pc = "gather"
    /\ tasks[c].state = "collecting"
    /\ \E out \in TaskOutputs :
         tasks' = [tasks EXCEPT ![c].state = "collected",
                                ![c].child = "exited",
                                ![c].responses = out]
    /\ UNCHANGED <<pc, DEFAULT_ANALYSIS, finished, results, completed,
                   config, singleRunVars>>

\* a task's timeout fires: proc.kill() on its own proc; a streaming task
\* keeps what it has read, a non-streaming one has outs = b''
TaskTimeout(c) ==
    /\ pc = "gather"
    /\ tasks[c].state = "collecting"
    /\ \E out \in TaskOutputs :
         tasks' = [tasks EXCEPT ![c].state = "collected",
                                ![c].child = "killed",
                                ![c].timed_out = TRUE,
                                ![c].responses =
                                    IF mode = "stream" THEN out ELSE <<>>]
    /\ UNCHANGED <<pc, DEFAULT_ANALYSIS, finished, results, completed,
                   config, singleRunVars>>

\* A bug for the checks: the exception leaves the coroutine
TaskFailsRaising(c) ==
    /\ pc = "gather"
    /\ tasks[c].state = "collecting"
    /\ \E launched \in BOOLEAN :
         tasks' = [tasks EXCEPT ![c].state = "raised",
                                ![c].failed = TRUE,
                                ![c].child = IF launched THEN "running"
                                             ELSE "none"]
    /\ completed' = Append(completed, c)
    /\ UNCHANGED <<pc, DEFAULT_ANALYSIS, finished, results, config, singleRunVars>>

\* an exception in a task (the launch fails, or reading does): except
\* Exception returns the error result
TaskFails(c) ==
    /\ pc = "gather"
    /\ tasks[c].state = "collecting"
    /\ \E launched \in BOOLEAN :
         tasks' = [tasks EXCEPT ![c].state = "done",
                                ![c].failed = TRUE,
                                ![c].child = IF launched THEN "running"
                                             ELSE "none",
                                ![c].result = ErrorResult("exception"),
                                ![c].returned = ErrorResult("exception")]
    /\ completed' = Append(completed, c)
    /\ UNCHANGED <<pc, DEFAULT_ANALYSIS, finished, results, config, singleRunVars>>

\* a task loads its Test Case, analyzes what it collected and returns its
\* Run Result; returned is that Run Result's value at this moment
TaskAnalyze(c) ==
    /\ pc = "gather"
    /\ tasks[c].state = "collected"
    /\ \E tc \in BatchTestCases :
         LET r   == _analyze_responses(tasks[c].responses, tc, DEFAULT_ANALYSIS)
             res == [kind |-> "result",
                     success |-> r.analysis.success,
                     is_stream |-> (mode = "stream"),
                     analysis |-> r.analysis,
                     test_case |-> tc,
                     responses |-> tasks[c].responses]
         IN  /\ DEFAULT_ANALYSIS' = r.DEFAULT_ANALYSIS
             /\ tasks' = [tasks EXCEPT
                            ![c].state = "done",
                            ![c].result = res,
                            ![c].returned =
                                ResultValue(res, r.DEFAULT_ANALYSIS)]
    /\ completed' = Append(completed, c)
    /\ UNCHANGED <<pc, finished, results, config, singleRunVars>>

\* A bug for the checks: the results are taken in the order the tasks
\* completed, as asyncio.as_completed would give them
GatherInCompletionOrder ==
    /\ pc = "gather"
    /\ tasks /= <<>>
    /\ \A c \in Combos : tasks[c].state \in {"done", "raised"}
    /\ IF \E c \in Combos : tasks[c].state = "raised"
       THEN pc' = "aborted" /\ UNCHANGED finished
       ELSE pc' = "assemble" /\ finished' = completed
    /\ UNCHANGED <<DEFAULT_ANALYSIS, tasks, results, completed, config, singleRunVars>>

\* finished = await asyncio.gather(*tasks): the tasks' Run Results in the
\* order of tasks, once all have returned; an exception out of a task would
\* leave async_run_benchmark here (there is no return_exceptions).  An entry
\* of finished is the number of the task whose Run Result object it is.
Gather ==
    /\ pc = "gather"
    /\ tasks /= <<>>
    /\ \A c \in Combos : tasks[c].state \in {"done", "raised"}
    /\ IF \E c \in Combos : tasks[c].state = "raised"
       THEN pc' = "aborted" /\ UNCHANGED finished
       ELSE pc' = "assemble" /\ finished' = [i \in Combos |-> i]
    /\ UNCHANGED <<DEFAULT_ANALYSIS, tasks, results, completed, config, singleRunVars>>

\* "Assemble results": for task, result in zip(tasks, finished) the result
\* object gets the keys model_name and test_case_file of the task's
\* combination and is stored under that combination; then the results go
\* to the report
Assemble ==
    /\ pc = "assemble"
    /\ tasks' = [c \in Combos |->
                   IF \E i \in DOMAIN finished : finished[i] = c
                   THEN LET i == CHOOSE j \in DOMAIN finished :
                                    /\ finished[j] = c
                                    /\ \A k \in DOMAIN finished :
                                          finished[k] = c => k <= j
                        IN  [tasks[c] EXCEPT !.result =
                               [model_name |-> task_map(i).model_name,
                                test_case_file |-> task_map(i).test_case_file]
                               @@ tasks[c].result]
                   ELSE tasks[c]]
    /\ results' = [k \in {task_map(i) : i \in DOMAIN finished} |->
                     finished[CHOOSE i \in DOMAIN finished : task_map(i) = k]]
    /\ pc' = "report"
    /\ UNCHANGED <<DEFAULT_ANALYSIS, finished, completed, config, singleRunVars>>

NextBatch ==
    \/ CreateTasks
    \/ \E c \in Combos : TaskCollected(c)
    \/ \E c \in Combos : TaskTimeout(c)
    \/ \E c \in Combos : TaskFails(c)
    \/ \E c \in Combos : TaskAnalyze(c)
    \/ Gather
    \/ Assemble

SpecBatch == InitBatch /\ [][NextBatch]_vars

-----------------------------------------------------------------------------
(* Properties of one batch *)

\* C14: once the results are assembled, every combination's key holds the
\* Run Result object its own task returned, in whatever order the tasks
\* completed; there is no other key and none is missing.
C14_ResultsUnderOwnKey ==
    pc = "report" =>
        (/\ DOMAIN results = {task_map(c) : c \in Combos}
         /\ \A c \in Combos :
               /\ results[task_map(c)] = c
               /\ tasks[c].result.model_name = task_map(c).model_name
               /\ tasks[c].result.test_case_file = task_map(c).test_case_file)

C14_Witness ==
    /\ pc = "report"
    /\ completed[1] /= 1
    /\ \A c \in Combos : tasks[c].result.kind = "result"
    /\ tasks[1].result.responses /= tasks[2].result.responses

\* C15: a task that fails returns a failure-shaped Run Result, the batch is
\* never aborted, and once the results are assembled every combination has
\* a Run Result, failure-shaped for each task that failed.
C15_FailureDoesNotAbort ==
    /\ pc /= "aborted"
    /\ \A c \in DOMAIN tasks :
          tasks[c].failed =>
              (tasks[c].state = "done" /\ tasks[c].result.kind = "error")
    /\ pc = "report" =>
          \A c \in Combos :
              /\ task_map(c) \in DOMAIN results
              /\ tasks[results[task_map(c)]].result.kind \in {"result", "error"}
              /\ tasks[c].failed =>
                    (/\ tasks[results[task_map(c)]].result.kind = "error"
                     /\ tasks[results[task_map(c)]].result.success = FALSE)

C15_Witness ==
    /\ pc = "report"
    /\ Len(tasks) >= 2
    /\ tasks[1].failed
    /\ ~tasks[2].failed
    /\ tasks[results[task_map(1)]].result.kind = "error"
    /\ tasks[results[task_map(2)]].result.success

\* the analysis a task would have returned had it been the only task
AnalysisAlone(t) ==
    LET r == _analyze_responses(t.result.responses, t.result.test_case,
                                PristineDefault)
    IN  ValueOf(r.analysis, r.DEFAULT_ANALYSIS)

\* C16: only a task's own timeout kills its child, and the Run Result of a
\* task whose siblings all timed out is what it would be without them.
C16_TimeoutLeavesSiblingsAlone ==
    /\ \A d \in DOMAIN tasks : tasks[d].child = "killed" => tasks[d].timed_out
    /\ \A c \in DOMAIN tasks :
          (/\ tasks[c].state = "done"
           /\ tasks[c].result.kind = "result"
           /\ ~tasks[c].timed_out
           /\ \A d \in DOMAIN tasks \ {c} : tasks[d].timed_out)
              => ValueOf(tasks[c].result.analysis, DEFAULT_ANALYSIS)
                   = AnalysisAlone(tasks[c])

\* What does hold of a timeout: it kills the child of its own task only, and
\* changes nothing else of any sibling
TimeoutTouchesOwnTaskOnly ==
    [][\A c \in Combos :
          TaskTimeout(c) =>
              \A d \in Combos \ {c} : tasks'[d] = tasks[d]]_vars

\* C19: from its return on, a Run Result keeps the value it was returned
\* with: no key added, removed or changed.
C19_ResultImmutableAfterReturn ==
    \A c \in DOMAIN tasks :
        tasks[c].state = "done"
            => ResultValue(tasks[c].result, DEFAULT_ANALYSIS)
                 = tasks[c].returned

\* The orchestrator's part of that alone, which does not hold either: the
\* keys of a Run Result are those it was returned with
ResultKeysAsReturned ==
    \A c \in DOMAIN tasks :
        tasks[c].state = "done"
            => DOMAIN tasks[c].result = DOMAIN tasks[c].returned

-----------------------------------------------------------------------------
(* The accuracy formula *)

\* 1 when the condition holds, else 0
Count(b) == IF b THEN 1 ELSE 0

\* the checks configured by the Test Case of the state
TotalChecks ==
    Count(HasToolCheck(test_case))
    + Count(HasSemanticCheck(test_case)
            /\ test_case.expected_output.semantic_match /= "none")

\* the configured checks that the returned Analysis passed
PassedChecks ==
    Count(HasToolCheck(test_case) /\ analysis.tool_usage /= "no")
    + Count(HasSemanticCheck(test_case)
            /\ test_case.expected_output.semantic_match /= "none"
            /\ analysis.semantic_match = "yes")

\* C21: total counts the contains_tool key when present and the semantic_match
\* key when present with a value other than "none"; passed counts the tool
\* check when tool_usage is not "no" and the semantic check when
\* semantic_match is "yes"; accuracy is passed / total * 100, or 100 when
\* total is 0; passed <= total, accuracy is 0, 50 or 100, and success holds
\* exactly when accuracy is 100.
C21_AccuracyFormula ==
    pc = "returned" =>
        /\ PassedChecks <= TotalChecks
        /\ analysis.accuracy = IF TotalChecks > 0
                               THEN (PassedChecks * 100) \div TotalChecks
                               ELSE 100
        /\ TotalChecks > 0 =>
               analysis.accuracy * TotalChecks = PassedChecks * 100
        /\ analysis.accuracy \in {0, 50, 100}
        /\ analysis.success <=> (analysis.accuracy = 100)

\* two checks configured, exactly one of them passed
C21_Witness ==
    /\ pc = "returned"
    /\ TotalChecks = 2
    /\ PassedChecks = 1
    /\ analysis.accuracy = 50
    /\ ~analysis.success

-----------------------------------------------------------------------------
(* The tool verdict for every tool name *)

\* C22: for every non-empty expected tool name T, "no" and "none" included:
\* tool_usage is "none" exactly when the contains_tool key is absent; with the
\* key present and T the name of the last event that names a tool, tool_usage
\* is T and the tool check is counted as passed; with the key present and
\* another last name, or no tool named, tool_usage is "no".
C22_ToolVerdictForEveryName ==
    pc = "returned" =>
        LET T == test_case.expected_output.contains_tool
        IN  /\ (analysis.tool_usage = "none") <=> ~HasToolCheck(test_case)
            /\ (HasToolCheck(test_case) /\ LastCallIs(responses, T))
                   => (/\ analysis.tool_usage = T
                       /\ ToolCheckCounted(analysis, test_case))
            /\ (HasToolCheck(test_case) /\ ~LastCallIs(responses, T))
                   => analysis.tool_usage = "no"

\* the part of C22 that the tool named "no" breaks: its verdict reads as the
\* expected name, and the check is counted as failed all the same
SentinelNoIsCounted ==
    (/\ pc = "returned"
     /\ HasToolCheck(test_case)
     /\ test_case.expected_output.contains_tool = "no"
     /\ LastCallIs(responses, "no"))
        => ToolCheckCounted(analysis, test_case)

\* the part of C22 that the tool named "none" breaks: the call is taken for
\* no call at all
SentinelNoneIsReported ==
    (/\ pc = "returned"
     /\ HasToolCheck(test_case)
     /\ test_case.expected_output.contains_tool = "none"
     /\ LastCallIs(responses, "none"))
        => analysis.tool_usage /= "no"

-----------------------------------------------------------------------------
(* Last-wins folding of the model and of the tool name *)

\* response i carries a non-empty model name
NamesModel(rs, i) == rs[i].isdict /\ Truthy(rs[i].model)

\* i is the last index of rs at which Named holds
IsLast(rs, i, Named(_, _)) ==
    Named(rs, i) /\ \A j \in DOMAIN rs : j > i => ~Named(rs, j)

\* C23: the reported model is the model of the last event with a non-empty
\* model, "unspecified" when there is none; the tool name the verdict uses is
\* the name of the last event with a non-empty tool_call.name; a later event
\* with an empty or absent value erases neither.
C23_LastWinsFolding ==
    pc = "returned" =>
        LET used == FoldResponses(LoopStart, responses).actual_tool_used
            T    == test_case.expected_output.contains_tool
        IN  /\ (\A i \in DOMAIN responses : ~NamesModel(responses, i))
                   => analysis.model = "unspecified"
            /\ \A i \in DOMAIN responses :
                   IsLast(responses, i, NamesModel)
                       => analysis.model = responses[i].model
            /\ (\A i \in DOMAIN responses : ~NamesTool(responses, i))
                   => used = "none"
            /\ \A i \in DOMAIN responses :
                   IsLast(responses, i, NamesTool)
                       => /\ used = responses[i].tool_call.name
                          /\ (HasToolCheck(test_case) /\ T \notin {"none", "no"})
                                 => ((analysis.tool_usage = T)
                                         <=> (responses[i].tool_call.name = T))

\* a model name and a tool name, each followed by an event that has none
C23_Witness ==
    /\ pc = "returned"
    /\ HasToolCheck(test_case)
    /\ \E i, j \in DOMAIN responses :
           /\ NamesModel(responses, i)
           /\ IsLast(responses, j, NamesTool)
           /\ i < Len(responses)
           /\ j < Len(responses)
           /\ responses[Len(responses)].isdict
           /\ IsDict(responses[Len(responses)].tool_call)
           /\ \A k \in DOMAIN responses : k > i => ~NamesModel(responses, k)
           /\ analysis.model = responses[i].model
           /\ analysis.tool_usage = responses[j].tool_call.name
           /\ analysis.tool_usage = "get_weather"

-----------------------------------------------------------------------------
(* The semantic verdict *)

\* the text of all the responses, in order
RECURSIVE AllText(_)
AllText(rs) == IF rs = <<>> THEN "" ELSE EventText(Head(rs)) \o AllText(Tail(rs))

\* C24: semantic_match is "none" exactly when the semantic_match key is
\* absent; with the key present it is "yes" exactly when the expected phrase
\* is non-empty and the score of phrase and combined text is at or above the
\* threshold, the threshold included, and "no" otherwise; one analysis calls
\* the scorer at most once.
C24_SemanticVerdict ==
    pc = "returned" =>
        LET phrase == test_case.expected_output.semantic_match
            calls  == ScorerCalls(FoldResponses(LoopStart, responses), test_case)
        IN  /\ (analysis.semantic_match = "none") <=> ~HasSemanticCheck(test_case)
            /\ HasSemanticCheck(test_case) =>
                   /\ analysis.semantic_match \in {"yes", "no"}
                   /\ (analysis.semantic_match = "yes")
                          <=> (/\ phrase /= ""
                               /\ CosSim(phrase, AllText(responses))
                                      >= DEFAULT_EMBEDDING_THRESHOLD)
            /\ Len(calls) <= 1
            /\ \A i \in DOMAIN calls : calls[i] = <<phrase, AllText(responses)>>

\* a score exactly at the threshold gives "yes"
C24_Witness ==
    /\ pc = "returned"
    /\ HasSemanticCheck(test_case)
    /\ CosSim(test_case.expected_output.semantic_match, AllText(responses))
           = DEFAULT_EMBEDDING_THRESHOLD
    /\ Len(ScorerCalls(FoldResponses(LoopStart, responses), test_case)) = 1
    /\ analysis.semantic_match = "yes"

-----------------------------------------------------------------------------
(* The streaming classification *)

\* response i has a choice_delta that is present and not null
MarksStreaming(rs, i) ==
    rs[i].isdict /\ rs[i].choice_delta.kind \notin {"absent", "null"}

\* the analysis treated its run as streaming: its token_usage is the sum it
\* accumulated, not the dict of DEFAULT_ANALYSIS
TreatedAsStreaming(a) == a.token_usage.ref = "own"

\* C25: the analysis treats the run as streaming exactly when at least one
\* event has a choice_delta that is present and non-null, one with null
\* content included; an event whose choice_delta is null or absent does not
\* mark it; nothing but the events decides.
C25_StreamingByEvents ==
    pc = "returned" =>
        /\ TreatedAsStreaming(analysis)
               <=> \E i \in DOMAIN responses : MarksStreaming(responses, i)
        /\ FoldResponses(LoopStart, responses).is_stream
               <=> TreatedAsStreaming(analysis)

\* a choice_delta with null content marks the run, next to an event whose
\* choice_delta is null
C25_Witness ==
    /\ pc = "returned"
    /\ TreatedAsStreaming(analysis)
    /\ \E i, j \in DOMAIN responses :
           /\ responses[i].choice_delta = ChoiceDelta(None)
           /\ responses[j].isdict
           /\ responses[j].choice_delta.kind = "null"
           /\ \A k \in DOMAIN responses :
                  MarksStreaming(responses, k) => k = i

-----------------------------------------------------------------------------
(* Parsing the output of a non-streaming run *)

\* every line of the output is blank: strip() leaves nothing
OnlyWhitespace(lines) == \A i \in DOMAIN lines : lines[i].kind = "blank"

\* C26: _parse_responses gives no event and no error for an empty or
\* whitespace-only output; exactly one event, the document, for an output
\* that parses as one JSON document; and otherwise the lines that parse as
\* JSON, in line order, unparsable and blank lines skipped.
C26_ParseResponses ==
    (mode = "batch" /\ pc \in {"analyze", "returned"}) =>
        /\ OnlyWhitespace(stdout_data) => responses = <<>>
        /\ (OnlyWhitespace(stdout_data) /\ pc = "returned"
            /\ child /= "none" /\ scorer /= "failed")
               => (result.kind = "result" /\ result.responses = <<>>)
        /\ ParsesAsOneDocument(stdout_data)
               => (Len(responses) = 1 /\ responses[1] = DocumentOf(stdout_data))
        /\ (~OnlyWhitespace(stdout_data) /\ ~ParsesAsOneDocument(stdout_data))
               => responses = WellFormedEvents(stdout_data)

\* a document written over three lines, one event inside, is one event: the
\* document, not the event of its middle line
C26_Witness ==
    /\ mode = "batch"
    /\ pc = "returned"
    /\ ~timed_out
    /\ Len(stdout_data) = 3
    /\ ParsesAsOneDocument(stdout_data)
    /\ stdout_data[2].kind = "json"
    /\ result.kind = "result"
    /\ result.responses = <<ScalarEvent>>
    /\ result.responses /= WellFormedEvents(stdout_data)

\* an output of blank lines only gives no event, one of well-formed and
\* malformed lines the well-formed ones
C26_WitnessLines ==
    /\ mode = "batch"
    /\ pc = "returned"
    /\ ~timed_out
    /\ Len(stdout_data) = 3
    /\ stdout_data[1].kind = "json"
    /\ stdout_data[2].kind = "garbage"
    /\ stdout_data[3].kind = "json"
    /\ result.kind = "result"
    /\ Len(result.responses) = 2

-----------------------------------------------------------------------------
(* stderr while stdout is read *)

\* the child is stopped in a write to stderr that nothing will let through:
\* the pipe is full and the transport has stopped reading it
StderrStalled ==
    /\ child = "running"
    /\ err_todo > 0
    /\ stderr_pipe = PipeCapacity
    /\ stderr_buffer = BufferLimit

\* C28: in streaming mode stderr is drained without blocking the stdout read
\* loop: a child that writes more stderr than the pipe holds before it is
\* through with its stdout is not blocked by the collector, which collects
\* all its stdout events without the timeout firing.  So the child is never
\* stalled on stderr, its stdout still to come, while the collector is in
\* its stdout read loop.
C28_StderrDrainedWhileReading ==
    ~(mode = "stream" /\ pc = "reading" /\ StderrStalled)

\* the timeout never fires on a child stalled on stderr
NoTimeoutOfStalledChild ==
    [][(pc = "reading" /\ timed_out') => ~StderrStalled]_vars

\* What does hold: a child that writes more than the pipe holds, and no more
\* than pipe and buffer hold together, is not stalled while stdout is read
StderrWithinBufferDrained ==
    (mode = "stream" /\ pc = "reading"
     /\ err_todo + stderr_pipe + stderr_buffer <= PipeCapacity + BufferLimit)
        => ~(child = "running" /\ err_todo > 0
             /\ ~ENABLED ChildWriteStderr /\ ~ENABLED TransportReadsStderr)

\* the runner never waits for the exit of a child whose stderr the transport
\* has stopped reading: that wait does not return
NoWaitOnPausedStderr == pc /= "wait_exit"

-----------------------------------------------------------------------------
(* The non-streaming timeout *)

\* C27: when the timeout of a non-streaming run fires, the output the child
\* had written before it is retained in the Run Result, the stdout and the
\* events parsed from it: the output is truncated, not discarded.
C27_BatchTimeoutKeepsOutput ==
    (/\ mode = "batch"
     /\ timed_out
     /\ pc = "returned"
     /\ result.kind = "result")
        => (/\ result.stdout = emitted
            /\ result.responses = _parse_responses(emitted))

\* What does hold: the Run Result of a non-streaming run that timed out has
\* no output and no event, whatever the child had written
BatchTimeoutResultIsEmpty ==
    (/\ mode = "batch"
     /\ timed_out
     /\ pc = "returned"
     /\ result.kind = "result")
        => (result.stdout = <<>> /\ result.responses = <<>>)

-----------------------------------------------------------------------------
(* Progress of the synchronous collector *)

\* _handle_stream_output has returned
SyncReturned == mode = "sync" /\ pc = "sync_returned"

\* C30: _handle_stream_output eventually returns whatever the child does,
\* a child that writes nothing and never exits included, and when it returns
\* the child has exited: on timeout the child is sent terminate, given the
\* grace period, and killed only if it is still alive.
C30_SyncCollectorReturns ==
    /\ <>(mode /= "sync" \/ pc = "sync_returned")
    /\ [](SyncReturned => child \in {"none", "exited", "killed"})
    /\ [](SyncReturned =>
            \A i \in DOMAIN signals :
                signals[i] = "SIGKILL" =>
                    /\ child = "killed"
                    /\ \E j \in 1..(i - 1) : signals[j] = "SIGTERM")

\* What does hold: when the collector returns no child is left running, and
\* a kill was sent only after a terminate that the child did not obey
SyncReturnLeavesNoChild ==
    SyncReturned =>
        /\ child \in {"exited", "killed"}
        /\ \A i \in DOMAIN signals :
               signals[i] = "SIGKILL" =>
                   /\ child = "killed"
                   /\ \E j \in 1..(i - 1) : signals[j] = "SIGTERM"

\* the collector is inside process.stdout.readline() with nothing to read and
\* the pipe open: the timeout check at the top of the loop is out of reach
SyncBlockedInReadline ==
    /\ mode = "sync"
    /\ pc = "sync_read"
    /\ buffered = 0
    /\ nread = Len(emitted)
    /\ "stdout" \in pipes

\* the collector never blocks in a read
SyncNeverBlocksInReadline == ~SyncBlockedInReadline

-----------------------------------------------------------------------------
(* The enumeration of a batch *)

\* the elements of a sequence
Range(seq) == { seq[i] : i \in DOMAIN seq }

\* the child processes task t has launched
Children(t) == IF t.child = "none" THEN 0 ELSE 1

\* C29: for the models M and the test-case files F of the app there is
\* exactly one task for every pair of M x F and no other task; each task
\* launches at most one child; the command line of a task holds
\* --model_name and --test_case_name of its own pair, and the app_config it
\* is given holds the same --test_case_name.
C29_OneTaskPerPair ==
    tasks /= <<>> =>
        /\ Len(tasks) = Cardinality(Range(config.models))
                            * Cardinality(Range(config.files))
        /\ \A m \in Range(config.models), f \in Range(config.files) :
               Cardinality({ c \in DOMAIN tasks :
                               tasks[c].command
                                   = [model_name |-> m, test_case_name |-> f] })
                   = 1
        /\ \A c \in DOMAIN tasks :
               /\ tasks[c].command.model_name = task_map(c).model_name
               /\ tasks[c].command.test_case_name = task_map(c).test_case_file
               /\ tasks[c].app_config.test_case_name
                      = tasks[c].command.test_case_name
               /\ Children(tasks[c]) <= 1

\* a batch over one model and two files: two tasks that differ in the file
\* only, each with a child of its own, and both have returned
C29_Witness ==
    /\ pc = "report"
    /\ Len(config.files) = 2
    /\ Len(tasks) = 2
    /\ tasks[1].command.model_name = tasks[2].command.model_name
    /\ tasks[1].command.test_case_name /= tasks[2].command.test_case_name
    /\ tasks[1].app_config.test_case_name /= tasks[2].app_config.test_case_name
    /\ \A c \in DOMAIN tasks : Children(tasks[c]) = 1

-----------------------------------------------------------------------------
(* One run of async_process_app of a child that exits with any status *)

\* the statuses a child exits with: 0, and 1 as sys.exit(1) or an uncaught
\* exception leave
ExitStatuses == {0, 1}

InitExit ==
    /\ pc = "launch"
    /\ mode \in {"stream", "batch"}
    /\ exit_status \in ExitStatuses
    /\ responses = <<>>
    /\ test_case = EmptyTestCase
    /\ analysis = NoAnalysis
    /\ DEFAULT_ANALYSIS = PristineDefault
    /\ finished = <<>>
    /\ child = "none"
    /\ emitted = <<>>
    /\ nread = 0
    /\ buffered = 0
    /\ stdout_data = <<>>
    /\ timed_out = FALSE
    /\ result = NoResult
    /\ pipes = {}
    /\ signals = <<>>
    /\ scorer = "idle"
    /\ tc_file = NoFile
    /\ NoStderr
    /\ tasks = <<>>
    /\ results = <<>>
    /\ completed = <<>>
    /\ config = NoConfig

NextExit ==
    \/ Launch
    \/ LaunchFails
    \/ ChildWrite
    \/ ChildClose
    \/ ChildExit
    \/ ReadLine
    \/ ReadLineOverrun
    \/ ReadEOF
    \/ StreamTimeout
    \/ DrainStderr
    \/ Communicate
    \/ BatchTimeout
    \/ AnalyzeAndReturn
    \/ AnalyzeFails

SpecExit == InitExit /\ [][NextExit]_vars

\* C31: a Run Result that async_process_app returns from its normal path has
\* the success of its analysis, which is the verdict of _analyze_responses on
\* the result's events and Test Case alone: neither the return code nor the
\* timeout enters it; with no events and a Test Case without expectation
\* keys it is TRUE.
C31_SuccessIsTheAnalysisVerdict ==
    result.kind = "result" =>
        /\ result.success = result.analysis.success
        /\ result.success =
             _analyze_responses(result.responses, result.test_case,
                                PristineDefault).analysis.success
        /\ (result.responses = <<>> /\ NoExpectationKeys(result.test_case))
               => result.success

\* a child that exited with status 1, or was killed on the timeout, without
\* a line of output, scored against a Test Case without expectations
C31_Witness ==
    /\ result.kind = "result"
    /\ result.return_code \in {1, -9}
    /\ emitted = <<>>
    /\ result.stdout = <<>>
    /\ NoExpectationKeys(result.test_case)
    /\ result.success

\* the same verdict under return codes 0 and 1, and after a timeout
C31_WitnessCleanExit ==
    /\ result.kind = "result"
    /\ result.return_code = 0
    /\ ~timed_out
    /\ emitted = <<>>
    /\ NoExpectationKeys(result.test_case)
    /\ result.success

-----------------------------------------------------------------------------
(* One analysis of arguments that may be None, of events whose keys may be
   absent or null *)

\* longest event sequence of such an analysis
MaxNullableEvents == 2

\* an argument that is None, and one that has a value
NoneArg == [isnone |-> TRUE]

Arg(v) == [isnone |-> FALSE, value |-> v]

\* Event Records with each of tool_call, choice_delta and usage absent, null
\* or an object, independently; the string-valued keys all absent (or null:
\* dict.get gives None for both) or all set; and a value that is no dict
NullableEvents ==
    { [EmptyEvent EXCEPT !.tool_call = t, !.choice_delta = c, !.usage = u] :
        t \in {AbsentObj, NullObj, ToolCall("get_weather")},
        c \in {AbsentObj, NullObj, ChoiceDelta("c")},
        u \in {AbsentObj, NullObj, Usage(1, 2)} }
    \cup { [EmptyEvent EXCEPT !.model = "qwen", !.content = "a",
                              !.reasoning_content = "b"],
           ScalarEvent }

NullableTestCases ==
    { EmptyTestCase,
      [model |-> None, has_expected_output |-> TRUE,
       expected_output |-> NoExpectations],
      [model |-> None, has_expected_output |-> TRUE,
       expected_output |-> ExpectedOutput(TRUE, "get_weather", TRUE, "hello")] }

\* x.get(key): AttributeError of a value that has no get, as None and the
\* JSON scalars
GetRaises(x) == x.kind /= "dict"

\* One iteration of the loop, its exceptions: response.get is reached by a
\* response that is a dict only, and tool_call.get, choice_delta.get and
\* current_usage.get each under isinstance(x, dict)
ResponseRaises(response) ==
    /\ response.isdict
    /\ \E x \in {response.tool_call, response.choice_delta, response.usage} :
          IsDict(x) /\ GetRaises(x)

\* "Ensure test_case and responses are not None"
TestCaseOrEmpty(tc) == IF tc.isnone THEN EmptyTestCase ELSE tc.value

ResponsesOrEmpty(rs) == IF rs.isnone THEN <<>> ELSE rs.value

\* self._analyze_responses(responses, test_case) with the arguments as the
\* caller passes them: what it returns, or that it raised
CallAnalyzeResponses(rs, tc, default) ==
    LET r == ResponsesOrEmpty(rs)
        t == TestCaseOrEmpty(tc)
    IN  IF \E i \in DOMAIN r : ResponseRaises(r[i])
        THEN [raised |-> TRUE, analysis |-> ShallowCopy(default),
              DEFAULT_ANALYSIS |-> default]
        ELSE [raised |-> FALSE] @@ _analyze_responses(r, t, default)

InitNullable ==
    /\ pc = "call"
    /\ responses \in {NoneArg}
          \cup {Arg(rs) : rs \in BoundedSeq(NullableEvents, MaxNullableEvents)}
    /\ test_case \in {NoneArg} \cup {Arg(tc) : tc \in NullableTestCases}
    /\ analysis = NoAnalysis
    /\ DEFAULT_ANALYSIS = PristineDefault
    /\ finished = <<>>
    /\ NoRun

AnalyzeNullable ==
    /\ pc = "call"
    /\ LET r == CallAnalyzeResponses(responses, test_case, DEFAULT_ANALYSIS)
       IN  /\ analysis' = r.analysis
           /\ DEFAULT_ANALYSIS' = r.DEFAULT_ANALYSIS
           /\ pc' = IF r.raised THEN "raised" ELSE "returned"
    /\ UNCHANGED <<batchVars, exit_status, stderrVars, responses, test_case,
                   finished, runVars>>

NextNullable == AnalyzeNullable

SpecNullable == InitNullable /\ [][NextNullable]_vars

\* the elements of the list that are dicts
DictsOf(rs) == SelectSeq(rs, LAMBDA response : response.isdict)

\* C32: _analyze_responses returns, and does not raise, whatever elements of
\* the event list are no dicts and whichever of the keys of an event are
\* absent or null; the Analysis is the one of the dict elements alone, and
\* the one of no events (of the empty Test Case) when the argument is None.
C32_NeverRaisesOnNullableEvents ==
    pc /= "call" =>
        /\ pc = "returned"
        /\ LET rs == IF responses.isnone THEN <<>> ELSE DictsOf(responses.value)
               tc == IF test_case.isnone THEN EmptyTestCase ELSE test_case.value
           IN  analysis = _analyze_responses(rs, tc, PristineDefault).analysis

\* a list with a non-dict between two events of null keys, analysed
C32_Witness ==
    /\ pc = "returned"
    /\ ~responses.isnone
    /\ Len(responses.value) = MaxNullableEvents
    /\ \E i, j \in DOMAIN responses.value :
          /\ ~responses.value[i].isdict
          /\ responses.value[j].isdict
          /\ responses.value[j].tool_call.kind = "null"
          /\ responses.value[j].choice_delta.kind = "null"
          /\ responses.value[j].usage.kind = "null"

\* both arguments None, analysed
C32_WitnessNone ==
    /\ pc = "returned"
    /\ responses.isnone
    /\ test_case.isnone
    /\ analysis.success

-----------------------------------------------------------------------------
(* ResponseAnalyzer.analyze_responses *)

\* longest event sequence handed to ResponseAnalyzer
MaxAnalyzerEvents == 2

\* the letters that str.lower() changes, of the texts below
UpperCase == <<"H", "E", "L", "O">>

LowerCase == <<"h", "e", "l", "o">>

\* str.lower()
RECURSIVE Lower(_)
Lower(s) ==
    IF s = "" THEN ""
    ELSE LET c == SubSeq(s, 1, 1)
             l == IF \E i \in DOMAIN UpperCase : UpperCase[i] = c
                  THEN LowerCase[CHOOSE i \in DOMAIN UpperCase :
                                     UpperCase[i] = c]
                  ELSE c
         IN  l \o Lower(SubSeq(s, 2, Len(s)))

\* ResponseAnalyzer.DEFAULT_ANALYSIS; analyze_responses never writes into
\* its token_usage dict, which every Analysis it returns shares
ResponseAnalyzerDefault ==
    [tool_usage |-> "none", required_content |-> "none",
     semantic_match |-> "none", accuracy |-> 0, response_time |-> 0,
     token_usage |-> [prompt |-> 0, completion |-> 0],
     success |-> FALSE, model |-> "unspecified"]

\* response.get(key, {}): the default stands in for an absent key only, a
\* null comes back as None
GetOrEmptyDict(x) ==
    IF x.kind = "absent" THEN [AbsentObj EXCEPT !.kind = "dict"] ELSE x

\* the locals of _collect_response_data before the loop
CollectStart ==
    [raised |-> FALSE, all_content |-> <<>>, all_reasoning_content |-> <<>>,
     streamed_content |-> <<>>, tool_calls |-> <<>>,
     token_usage |-> [prompt |-> 0, completion |-> 0]]

\* one iteration of the loop of _collect_response_data; response.get and
\* response.get("choice_delta", {}).get are called under no guard
CollectResponse(acc, response) ==
    IF acc.raised THEN acc
    ELSE IF ~response.isdict \/ GetRaises(GetOrEmptyDict(response.choice_delta))
    THEN [acc EXCEPT !.raised = TRUE]
    ELSE
    LET delta_content == GetOrEmptyDict(response.choice_delta).content
        tool_call     == response.tool_call
        usage         == response.usage
    IN  [raised |-> FALSE,
         all_content |->
             acc.all_content
             \o (IF Truthy(response.content)
                 THEN <<response.content>> ELSE <<>>),
         all_reasoning_content |->
             acc.all_reasoning_content
             \o (IF Truthy(response.reasoning_content)
                 THEN <<response.reasoning_content>> ELSE <<>>),
         streamed_content |->
             acc.streamed_content
             \o (IF Truthy(delta_content) THEN <<delta_content>> ELSE <<>>),
         tool_calls |->
             IF IsDict(tool_call) /\ Truthy(tool_call.name)
             THEN Append(acc.tool_calls, tool_call) ELSE acc.tool_calls,
         token_usage |->
             IF IsDict(usage)
             THEN [prompt |-> acc.token_usage.prompt + usage.prompt_tokens,
                   completion |-> acc.token_usage.completion
                                    + usage.completion_tokens]
             ELSE acc.token_usage]

RECURSIVE CollectLoop(_, _)
CollectLoop(acc, rs) ==
    IF rs = <<>> THEN acc
    ELSE CollectLoop(CollectResponse(acc, Head(rs)), Tail(rs))

\* ResponseAnalyzer._collect_response_data: the tuple it returns, or that it
\* raised
_collect_response_data(rs) ==
    LET acc == CollectLoop(CollectStart, rs)
    IN  [raised |-> acc.raised,
         all_content |-> acc.all_content,
         all_reasoning_content |-> acc.all_reasoning_content,
         combined_content |-> Join(acc.streamed_content),
         tool_calls |-> acc.tool_calls,
         token_usage |-> acc.token_usage]

\* ResponseAnalyzer._check_semantic_match: the phrase, lower-cased, is in
\* one of the texts, lower-cased
_check_semantic_match(all_content, all_reasoning_content, combined_content, expected_match) ==
    IF ~Truthy(expected_match) THEN TRUE
    ELSE LET all_text == all_content \o all_reasoning_content
                         \o (IF combined_content /= ""
                             THEN <<combined_content>> ELSE <<>>)
         IN  \E i \in DOMAIN all_text :
                 Contains(Lower(all_text[i]), Lower(expected_match))

\* ResponseAnalyzer.analyze_responses: the Analysis it returns, or that it
\* raised
analyze_responses(rs, tc) ==
    LET expected_tool == IF HasToolCheck(tc)
                         THEN tc.expected_output.contains_tool ELSE None
        expected_semantic_match ==
            IF HasSemanticCheck(tc)
            THEN tc.expected_output.semantic_match ELSE ""
        data == _collect_response_data(rs)
        tool_usage_success ==
            \E i \in DOMAIN data.tool_calls :
                data.tool_calls[i].name = expected_tool
        found_match ==
            _check_semantic_match(data.all_content,
                                  data.all_reasoning_content,
                                  data.combined_content,
                                  expected_semantic_match)
        total_checks == (IF expected_tool /= None THEN 1 ELSE 0)
                        + (IF Truthy(expected_semantic_match) THEN 1 ELSE 0)
        success_count ==
            (IF expected_tool /= None /\ tool_usage_success THEN 1 ELSE 0)
            + (IF Truthy(expected_semantic_match) /\ found_match
               THEN 1 ELSE 0)
    IN  IF data.raised
        THEN [raised |-> TRUE, analysis |-> ResponseAnalyzerDefault]
        ELSE [raised |-> FALSE,
              analysis |->
                [ResponseAnalyzerDefault EXCEPT
                   !.tool_usage =
                       IF expected_tool /= None /\ tool_usage_success
                       THEN expected_tool ELSE @,
                   !.semantic_match =
                       IF Truthy(expected_semantic_match) /\ found_match
                       THEN "yes" ELSE @,
                   !.accuracy =
                       IF success_count = total_checks THEN 100 ELSE 0,
                   !.success = (success_count = total_checks)]]

\* the record the example application writes: every key is there, those an
\* event does not use with a null
ExampleAppEvent(content) ==
    [EmptyEvent EXCEPT !.content = content, !.choice_delta = NullObj,
                       !.tool_call = NullObj, !.usage = NullObj]

\* Event Records for ResponseAnalyzer: texts that make the phrase "hello"
\* within one event and across two; tool calls; usage; keys that are null
AnalyzerEvents ==
    { [EmptyEvent EXCEPT !.content = "he"],
      [EmptyEvent EXCEPT !.content = "llo"],
      [EmptyEvent EXCEPT !.reasoning_content = "HELLO"],
      [EmptyEvent EXCEPT !.choice_delta = ChoiceDelta("he")],
      [EmptyEvent EXCEPT !.choice_delta = ChoiceDelta("llo")],
      [EmptyEvent EXCEPT !.tool_call = ToolCall("get_weather")],
      [EmptyEvent EXCEPT !.tool_call = ToolCall("search")],
      [EmptyEvent EXCEPT !.tool_call = ToolCall("no")],
      [EmptyEvent EXCEPT !.usage = Usage(10, 5)],
      [EmptyEvent EXCEPT !.usage = Usage(1, 2),
                         !.choice_delta = ChoiceDelta(None)],
      [EmptyEvent EXCEPT !.tool_call = NullObj, !.usage = NullObj],
      ExampleAppEvent("hello") }

InitResponseAnalyzer ==
    /\ pc = "call"
    /\ responses \in BoundedSeq(AnalyzerEvents, MaxAnalyzerEvents)
    /\ test_case \in TestCases
    /\ analysis = NoAnalysis
    /\ DEFAULT_ANALYSIS = PristineDefault
    /\ finished = <<>>
    /\ NoRun

\* analysis = ResponseAnalyzer().analyze_responses(responses, test_case)
AnalyzeResponses ==
    /\ pc = "call"
    /\ LET r == analyze_responses(responses, test_case)
       IN  /\ analysis' = r.analysis
           /\ pc' = IF r.raised THEN "raised" ELSE "returned"
    /\ UNCHANGED <<batchVars, exit_status, stderrVars, responses, test_case,
                   DEFAULT_ANALYSIS, finished, runVars>>

NextResponseAnalyzer == AnalyzeResponses

SpecResponseAnalyzer == InitResponseAnalyzer /\ [][NextResponseAnalyzer]_vars

\* choice_delta, tool_call and usage of every event are absent or null
NestedKeysNullable(rs) ==
    \A i \in DOMAIN rs :
        /\ IsNone(rs[i].choice_delta)
        /\ IsNone(rs[i].tool_call)
        /\ IsNone(rs[i].usage)

\* C33: ResponseAnalyzer.analyze_responses returns an Analysis, and does not
\* raise, for every sequence of Event Records whose choice_delta, tool_call
\* and usage are each absent or null.
C33_ReturnsOnNullKeys ==
    (pc /= "call" /\ NestedKeysNullable(responses)) => pc = "returned"

\* What holds: it returns when choice_delta is absent or an object, whatever
\* tool_call and usage are
ReturnsUnlessChoiceDeltaNull ==
    (pc /= "call" /\ \A i \in DOMAIN responses :
                        responses[i].choice_delta.kind /= "null")
        => pc = "returned"

\* What holds: a null choice_delta raises, wherever it is in the sequence
RaisesOnNullChoiceDelta ==
    (pc /= "call" /\ \E i \in DOMAIN responses :
                        responses[i].choice_delta.kind = "null")
        => pc = "raised"

\* an event of null tool_call and usage was analysed
NullToolCallAnalysed ==
    /\ pc = "returned"
    /\ \E i \in DOMAIN responses :
          responses[i].tool_call.kind = "null"
          /\ responses[i].usage.kind = "null"

-----------------------------------------------------------------------------
(* ResponseAnalyzer and BenchmarkProcessor on the same input *)

\* the scorer of BenchmarkProcessor replaced by case-insensitive substring
\* containment: expected.lower() in actual.lower()
SubstringScorer(expected, actual) == Contains(Lower(actual), Lower(expected))

\* "Check semantic match" of BenchmarkProcessor with that scorer in the
\* place of semantic_match_by_embedding
SubstringVerdict(acc, tc) ==
    IF HasSemanticCheck(tc)
    THEN LET expected_match == tc.expected_output.semantic_match
             all_content    == Join(acc.combined_content)
         IN  IF Truthy(expected_match)
                /\ SubstringScorer(expected_match, all_content)
             THEN "yes" ELSE "no"
    ELSE "none"

\* analysis["success"] of BenchmarkProcessor._analyze_responses with that
\* scorer
ProcessorSuccessBySubstring(rs, tc) ==
    LET acc == FoldResponses(LoopStart, rs)
    IN  Accuracy(Metrics(ToolVerdict(acc, tc),
                         SubstringVerdict(acc, tc), tc)) = 100

\* C34: ResponseAnalyzer.analyze_responses returns, and its success is the
\* success that BenchmarkProcessor._analyze_responses computes of the same
\* events and Test Case with substring containment for scorer.
C34_SameSuccessVerdict ==
    pc /= "call" =>
        /\ pc = "returned"
        /\ analysis.success
             = ProcessorSuccessBySubstring(responses, test_case)

\* The same of the inputs on which ResponseAnalyzer returns: violated too
SameSuccessWhereBothReturn ==
    pc = "returned" =>
        analysis.success
          = ProcessorSuccessBySubstring(responses, test_case)

\* The same of Test Cases that expect a tool only, other than the verdict
\* strings: violated too (any matching call against the last call)
SameSuccessOnToolChecks ==
    (/\ pc = "returned"
     /\ HasToolCheck(test_case)
     /\ ~HasSemanticCheck(test_case)
     /\ test_case.expected_output.contains_tool \notin {"none", "no"})
        => analysis.success
             = ProcessorSuccessBySubstring(responses, test_case)

\* The same of Test Cases that expect a phrase only, other than "" and
\* "none": violated too (each text against the concatenation of all)
SameSuccessOnPhraseChecks ==
    (/\ pc = "returned"
     /\ ~HasToolCheck(test_case)
     /\ HasSemanticCheck(test_case)
     /\ test_case.expected_output.semantic_match \notin {"", "none"})
        => analysis.success
             = ProcessorSuccessBySubstring(responses, test_case)

\* What holds: the two agree when the Test Case has no expectation keys
SameSuccessWithoutExpectations ==
    (pc = "returned" /\ NoExpectationKeys(test_case))
        => (/\ analysis.success
            /\ ProcessorSuccessBySubstring(responses, test_case))

\* What holds: where ResponseAnalyzer fails a tool check, BenchmarkProcessor
\* fails it too
ProcessorToolCheckIsStricter ==
    (/\ pc = "returned"
     /\ HasToolCheck(test_case)
     /\ ~HasSemanticCheck(test_case)
     /\ ~analysis.success)
        => ~ProcessorSuccessBySubstring(responses, test_case)

-----------------------------------------------------------------------------
(* The error result of async_process_app *)

\* C35: a Run Result returned from the exception path of async_process_app
\* has no responses, the empty Test Case, and no stdout, stderr or
\* return_code key, also when the child had run and events were collected
\* before the exception.
C35_ErrorResultIsBare ==
    result.kind = "error" =>
        /\ result.responses = <<>>
        /\ result.test_case = EmptyTestCase
        /\ {"stdout", "stderr", "return_code"} \cap DOMAIN result = {}

\* the scorer raised in the analysis of events that had been collected,
\* against a Test Case that had been loaded
C35_Witness ==
    /\ result.kind = "error"
    /\ scorer = "failed"
    /\ child /= "none"
    /\ Len(responses) >= 1
    /\ stdout_data /= <<>>
    /\ test_case /= EmptyTestCase

\* the result of the normal path has the three keys
NormalResultHasOutputKeys ==
    result.kind = "result" =>
        {"stdout", "stderr", "return_code"} \subseteq DOMAIN result

-----------------------------------------------------------------------------
(* The token usage of ResponseAnalyzer *)

\* C36: the Analysis that ResponseAnalyzer.analyze_responses returns has in
\* token_usage the prompt and completion totals that _collect_response_data
\* summed over the events of the sequence that carry a usage object.
C36_TokenUsageIsCollectedTotals ==
    pc = "returned" =>
        analysis.token_usage = _collect_response_data(responses).token_usage

\* What holds: _collect_response_data returns the sums over the
\* usage-bearing events
CollectedTotalsAreSums ==
    pc = "returned" =>
        _collect_response_data(responses).token_usage = SumUsage(responses)

\* What holds: the Analysis keeps the zeros of DEFAULT_ANALYSIS, whatever
\* the events carry
TokenUsageStaysDefault ==
    pc = "returned" =>
        analysis.token_usage = ResponseAnalyzerDefault.token_usage

\* a sequence with usage was analysed
UsageAnalysed ==
    /\ pc = "returned"
    /\ SumUsage(responses).prompt > 0

====
